---- MODULE Spec2Model ----
(***************************************************************************)
(* Safestep: the route-time and safety estimation pipeline.                *)
(*                                                                         *)
(*   - the three-tier provider chains of services/GeminiService.ts         *)
(*     (getSafetyAnalysis, analyzeRouteTime, analyzeLocationTiming);       *)
(*   - the deterministic heuristic tiers they end in;                      *)
(*   - getRoute, in its two variants (services/RouteService.ts and the     *)
(*     validating variant);                                                *)
(*   - the cross-mode reconciliation of components/TransportTimeAnalysis.  *)
(*                                                                         *)
(* Numbers.  The program computes in IEEE doubles; the model computes in   *)
(* exact fixed point.  A quantity named x1000 is x in thousandths, x10 in  *)
(* tenths, x100 in hundredths.  Math.round(x) is floor(x + 0.5).  Within   *)
(* the bounds used here the doubles round to the same integers as the      *)
(* exact values (for base * 1.15 that is so below 50 minutes).             *)
(***************************************************************************)
EXTENDS Integers, Sequences, FiniteSets, TLC

VARIABLES
    GEMINI_API_KEY,   \* process.env credential of the primary provider is set
    GROQ_API_KEY,     \* process.env credential of the secondary provider is set
    fn,               \* the pipeline function being executed
    pc,               \* its position
    mode,             \* argument: travel mode
    hour,             \* new Date().getHours() at the call
    baseDuration,     \* argument: route duration, seconds
    distance,         \* argument: route distance, metres
    geminiCalls,      \* generateContent requests sent during this call
    groqCalls,        \* fetch requests sent to the secondary provider during this call
    tier1,            \* outcome of the primary attempt: "none", "failed", "ok"
    tier2,            \* outcome of the secondary attempt
    result,           \* the value the call resolves to
    routeImpl,        \* getRoute variant in use: "validating" or "plain"
    routePc,          \* position of the getRoute call
    start,            \* argument: origin <<lat, lon>>
    end,              \* argument: destination <<lat, lon>>
    profile,          \* argument: travel mode
    routeReply,       \* what the routing provider answered
    routeResult,      \* the RouteData the call resolves to
    previousRoute,    \* the getRoute call that returned before this one, with its RouteData
    routeOptions,     \* TransportTimeAnalysis prop: RouteData or null per mode
    routeTimeAnalysis,\* TransportTimeAnalysis prop: RouteTimeAnalysis or null per mode
    modes,            \* the corrected, sorted list the component renders
    rendered,         \* the component has rendered
    user,             \* useAuth(): somebody is logged in
    searchVariant,    \* which handleSearch of page.tsx runs: 1 or 2
    searchPc,         \* position of handleSearch
    origin,           \* page state: the origin text
    destination,      \* page state: the destination text
    userLocation,     \* page state: <<lat, lon>> or null
    destinationLocation, \* page state: <<lat, lon>> or null
    startCoords,      \* handleSearch local
    endCoords,        \* handleSearch local
    isLoading,        \* page state
    analysis,         \* page state: SafetyAnalysis or null
    alerted,          \* alert(...) was shown
    routeCalls,       \* the three getRoute promises of Promise.all
    timeCalls,        \* the three analyzeRouteTime promises of Promise.all
    cache,            \* memoizing getSafetyAnalysis: the module's Map, key to SafetyAnalysis
    memoCalls,        \* memoizing getSafetyAnalysis: the calls of the session, by slot
    memoStarted,      \* calls made so far
    obtained,         \* what generateContent has answered so far, by call arguments
    travelMode,       \* page state: the selected travel mode
    routePath,        \* page state: the mode whose route coordinates are drawn, or "none"
    travelTime,       \* page state of the second page.tsx: TravelTimeEstimate or undefined
    switchPending,    \* getSafetyAnalysis requests of switchMode still in flight
    switchCount,      \* switchMode calls so far
    analysisFor,      \* the mode argument of the request whose result analysis holds
    isHoldingSOS,     \* page state
    sosActive,        \* page state
    sosTimerRef,      \* sosTimerRef.current: a timer id, or 0 for null
    sosTimers,        \* the 2 s timers set by startSOS and still pending
    sosStarts,        \* startSOS calls so far; the id of the last timer set
    sosOffTimers,     \* pending timers that will call setSosActive(false)
    sosTrigger,       \* the timer whose callback last ran triggerSOS
    safetyTimerActive,\* page state, the isActive prop of SafetyTimer
    timeLeft,         \* SafetyTimer state, seconds
    isPaused,         \* SafetyTimer state
    timerRef,         \* SafetyTimer: an interval set by the effect is running
    timerEvent        \* SafetyTimer: the handler that ran last; "lastTick" called onTriggerSOS

pipeVars == <<GEMINI_API_KEY, GROQ_API_KEY, fn, pc, mode, hour, baseDuration,
              distance, geminiCalls, groqCalls, tier1, tier2, result>>

routeVars == <<routeImpl, routePc, start, end, profile, routeReply, routeResult,
               previousRoute>>

reconVars == <<routeOptions, routeTimeAnalysis, modes, rendered>>

searchVars == <<user, searchVariant, searchPc, origin, destination, userLocation,
                destinationLocation, startCoords, endCoords, isLoading,
                analysis, alerted, routeCalls, timeCalls>>

memoVars == <<cache, memoCalls, memoStarted, obtained>>

switchVars == <<travelMode, routePath, travelTime, switchPending, switchCount,
                analysisFor>>

sosVars == <<isHoldingSOS, sosActive, sosTimerRef, sosTimers, sosStarts,
             sosOffTimers, sosTrigger>>

timerVars == <<safetyTimerActive, timeLeft, isPaused, timerRef, timerEvent>>

sessionVars == <<memoVars, switchVars, sosVars, timerVars>>

vars == <<pipeVars, routeVars, reconVars, searchVars, sessionVars>>

----------------------------------------------------------------------------
(* Values *)

Modes == {"walking", "cycling", "driving"}

Hours == 0..23

\* JavaScript's undefined and NaN, kept apart from every number the model uses
Undef == 0 - 1
NaN == 0 - 2

NoResult == [source |-> "none"]

\* a || b
JsOr(a, b) == IF a = Undef \/ a = NaN \/ a = 0 THEN b ELSE a

\* Math.round of a number given in thousandths
Round1000(x1000) == (x1000 + 500) \div 1000

\* Math.round(x) of an integer or of undefined
RoundInt(x) == IF x = Undef \/ x = NaN THEN NaN ELSE x

\* the seconds Date.setSeconds adds for a (possibly fractional) argument
TruncSeconds1000(x1000) == x1000 \div 1000

----------------------------------------------------------------------------
(* The heuristic tiers *)

\* speeds = { walking: 5, cycling: 15, driving: 50 }, km/h
speeds(m) == CASE m = "walking" -> 5
               [] m = "cycling" -> 15
               [] m = "driving" -> 50

\* (distance / 1000 / speed) * 3600 seconds, in thousandths
EstimatedDuration1000(m, dist) == dist * (3600 \div speeds(m))

\* an accessTime that charges cycling two minutes
FallbackAccessTimeTwoMinutes(m) == CASE m = "driving" -> 300
                                     [] m = "cycling" -> 120
                                     [] OTHER -> 0

\* accessTime of generateFallbackTimeAnalysis, seconds
FallbackAccessTime(m) == CASE m = "driving" -> 300
                           [] m = "cycling" -> 60
                           [] OTHER -> 0

generateFallbackTimeAnalysis(m, base, dist) ==
    LET estimatedDuration == EstimatedDuration1000(m, dist)
        adjustedDuration  == estimatedDuration + FallbackAccessTime(m) * 1000
        finalDuration     == IF m = "walking" THEN estimatedDuration
                                              ELSE adjustedDuration
    IN  [estimatedDuration |-> Round1000(estimatedDuration),
         arrivalOffset     |-> TruncSeconds1000(finalDuration),
         adjustedDuration  |-> Round1000(finalDuration),
         unit              |-> "seconds",
         source            |-> "EST",
         confidence        |-> Undef]

\* accessTime in the catch branch of the single-provider analyzeRouteTime, seconds
CatchAccessTime(m) == CASE m = "driving" -> 300
                        [] m = "cycling" -> 60
                        [] OTHER -> 0

\* the catch branch of the single-provider analyzeRouteTime
analyzeRouteTimeCatchFallback(m, base, dist) ==
    LET estimatedDuration == EstimatedDuration1000(m, dist)
        adjustedDuration  == estimatedDuration + CatchAccessTime(m) * 1000
        finalAdjustedDuration == IF m = "walking" THEN estimatedDuration
                                                  ELSE adjustedDuration
    IN  [estimatedDuration |-> Round1000(estimatedDuration),
         arrivalOffset     |-> TruncSeconds1000(finalAdjustedDuration),
         adjustedDuration  |-> Round1000(finalAdjustedDuration),
         unit              |-> "seconds",
         source            |-> "isMock",
         confidence        |-> Undef]

\* whole minutes by truncation
BaseMinutesFloor(base) == base \div 60

\* baseMinutes = Math.round(baseRouteDuration / 60)
BaseMinutes(base) == (base + 30) \div 60

\* only the morning counts as rush hour
isRushHourMorning(h) == h >= 7 /\ h <= 9

isRushHour(h) == (h >= 7 /\ h <= 9) \/ (h >= 17 /\ h <= 19)

\* night begins once the evening rush hour has started
isNightFromSix(h) == h < 6 \/ h > 18

isNight(h) == h < 6 \/ h > 21

Min(a, b) == IF a <= b THEN a ELSE b

\* no adjustment for mode, hour or distance
adjustmentFactorFlat100(m, distanceM, h) == 100

\* long walks are not slowed down
adjustmentFactorAnyLength100(m, distanceM, h) ==
    CASE m = "driving" ->
            IF isRushHour(h) THEN 130
            ELSE IF isNight(h) THEN 85
            ELSE 100
      [] m = "cycling" ->
            LET f1 == IF isNight(h) THEN 115 ELSE 100
            IN  IF isRushHour(h) THEN 110 ELSE f1
      [] m = "walking" -> IF isNight(h) THEN 120 ELSE 100

\* adjustmentFactor of generateIntelligentFallbackTiming, in hundredths;
\* distanceKm is given in metres
adjustmentFactor100(m, distanceM, h) ==
    CASE m = "driving" ->
            IF isRushHour(h) THEN 130
            ELSE IF isNight(h) THEN 85
            ELSE 100
      [] m = "cycling" ->
            LET f1 == IF isNight(h) THEN 115 ELSE 100
            IN  IF isRushHour(h) THEN 110 ELSE f1
      [] m = "walking" ->
            LET f1 == IF isNight(h) THEN 120 ELSE 100
            IN  IF distanceM > 3000 THEN Min(f1 + 10, 130) ELSE f1

\* no access time for any mode
IntelligentAccessTimeNone(m) == 0

\* accessTime of generateIntelligentFallbackTiming, minutes
IntelligentAccessTime(m) == CASE m = "driving" -> 5
                              [] m = "cycling" -> 2
                              [] OTHER -> 0

generateIntelligentFallbackTiming(m, baseMinutes, distanceM, h) ==
    LET adjustedMinutes ==
            (baseMinutes * adjustmentFactor100(m, distanceM, h)
                + IntelligentAccessTime(m) * 100 + 50) \div 100
    IN  [estimatedDuration |-> baseMinutes,
         arrivalOffset     |-> adjustedMinutes * 60,
         adjustedDuration  |-> adjustedMinutes,
         unit              |-> "minutes",
         source            |-> "EST",
         confidence        |-> 65]

----------------------------------------------------------------------------
(* Provider responses *)

MaxBaseSteps == 4
MaxDistSteps == 4

\* route durations (seconds) and distances (metres) handed to the pipelines
BaseDurations == {150 * k : k \in 0..MaxBaseSteps}
Distances == {875 * k : k \in 0..MaxDistSteps}

\* hours at which the provider chains are exercised
PipelineHours == {8, 13, 22}

PipelineFns == {"getSafetyAnalysis", "analyzeRouteTime", "analyzeLocationTiming"}

\* The text a provider answers with, by what JSON.parse makes of it:
\*   "nonjson": JSON.parse throws;
\*   "null":    JSON.parse returns null, and reading a property of it throws;
\*   "object":  JSON.parse returns a value whose properties can be read
\*              (a missing property reads as undefined).
\* Scores are in tenths; a tip is 1 when present.
SafetyBodies ==
    {[kind |-> k, score10 |-> Undef, tip |-> Undef] : k \in {"nonjson", "null"}}
    \cup {[kind |-> "object", score10 |-> s, tip |-> t] :
             s \in {Undef, 30, 90}, t \in {Undef, 1}}

TimeBodies ==
    {[kind |-> k, estimatedDuration |-> Undef, adjustedDuration |-> Undef] :
        k \in {"nonjson", "null"}}
    \cup {[kind |-> "object", estimatedDuration |-> e, adjustedDuration |-> a] :
             e \in {Undef, 0, 420}, a \in {Undef, 300, 1000}}

Bodies(f) == IF f = "getSafetyAnalysis" THEN SafetyBodies ELSE TimeBodies

NonJson(f) == CHOOSE b \in Bodies(f) : b.kind = "nonjson"

\* The HTTP answer of the secondary provider: its status, what
\* groqResponse.json() makes of the envelope ("nonjson": it throws;
\* "nochoices": choices[0] is undefined; "ok"), and message.content.
GroqReplies(f) ==
    {[httpOk |-> FALSE, envelope |-> "ok", content |-> NonJson(f)]}
    \cup {[httpOk |-> TRUE, envelope |-> e, content |-> NonJson(f)] :
             e \in {"nonjson", "nochoices"}}
    \cup {[httpOk |-> TRUE, envelope |-> "ok", content |-> b] : b \in Bodies(f)}

\* JSON.parse(text) followed by the reads of data.<field> throws
ParseThrows(body) == body.kind # "object"

\* if (!groqResponse.ok) throw; await groqResponse.json(); choices[0].message.content
GroqThrows(reply) ==
    \/ ~reply.httpOk
    \/ reply.envelope # "ok"
    \/ ParseThrows(reply.content)

----------------------------------------------------------------------------
(* What a provider tier returns from a parsed answer *)

SafetyFrom(data, src) ==
    [score10 |-> data.score10, tip |-> data.tip, source |-> src]

\* calculateArrivalTime(data.estimatedDuration), then the returned object
RouteTimeFrom(data, src) ==
    [estimatedDuration |-> data.estimatedDuration,
     arrivalOffset     |-> IF data.estimatedDuration = Undef THEN NaN
                           ELSE data.estimatedDuration,
     adjustedDuration  |-> JsOr(data.adjustedDuration, data.estimatedDuration),
     unit              |-> "seconds",
     source            |-> src,
     confidence        |-> Undef]

LocationTimingFrom(data, src, baseMinutes, conf) ==
    LET adjustedMinutes ==
            RoundInt(JsOr(data.adjustedDuration, data.estimatedDuration))
    IN  [estimatedDuration |-> baseMinutes,
         arrivalOffset     |-> IF adjustedMinutes = NaN THEN NaN
                               ELSE adjustedMinutes * 60,
         adjustedDuration  |-> adjustedMinutes,
         unit              |-> "minutes",
         source            |-> src,
         confidence        |-> conf]

\* every provider tier reports the confidence of the primary one
TierResultOneConfidence(f, data, src, base) ==
    CASE f = "getSafetyAnalysis" -> SafetyFrom(data, src)
      [] f = "analyzeRouteTime" -> RouteTimeFrom(data, src)
      [] f = "analyzeLocationTiming" ->
            LocationTimingFrom(data, src, BaseMinutes(base), 85)

TierResult(f, data, src, base) ==
    CASE f = "getSafetyAnalysis" -> SafetyFrom(data, src)
      [] f = "analyzeRouteTime" -> RouteTimeFrom(data, src)
      [] f = "analyzeLocationTiming" ->
            LocationTimingFrom(data, src, BaseMinutes(base),
                               IF src = "Gemini" THEN 85 ELSE 80)

\* ATTEMPT 3 of getSafetyAnalysis: score 7.8
SafetyFallback == [score10 |-> 78, tip |-> 1, source |-> "EST"]

HeuristicResult(f, m, base, dist, h) ==
    CASE f = "getSafetyAnalysis" -> SafetyFallback
      [] f = "analyzeRouteTime" -> generateFallbackTimeAnalysis(m, base, dist)
      [] f = "analyzeLocationTiming" ->
            generateIntelligentFallbackTiming(m, BaseMinutes(base), dist, h)

----------------------------------------------------------------------------
(* The provider chain: try primary, catch -> try secondary, catch -> heuristic. *)
(* getSafetyAnalysis, analyzeRouteTime and analyzeLocationTiming share it.      *)

\* the first catch goes straight to ATTEMPT 3
OnGeminiErrorSkipsToHeuristic == "tier3"

\* catch (geminiError) { ... ATTEMPT 2 ... }
OnGeminiError == "tier2"

\* the inner catch lets the error escape to the caller
OnGroqErrorRethrows == "raised"

\* catch (groqError) { ... ATTEMPT 3 ... }
OnGroqError == "tier3"

\* the first try falls through to ATTEMPT 2 instead of returning
AfterGeminiSuccessFallsThrough == "tier2"

\* return { ..., source: 'Gemini' } inside the first try
AfterGeminiSuccess == "done"

\* return { ..., source: 'Groq' } inside the second try
AfterGroqSuccess == "done"

NoModes == <<>>

ReconAtRest ==
    /\ routeOptions = [m \in Modes |-> [kind |-> "null", distance |-> 0, duration |-> 0]]
    /\ routeTimeAnalysis = [m \in Modes |-> [kind |-> "null", adjustedDuration |-> 0]]
    /\ modes = NoModes
    /\ rendered = FALSE

\* null, for a coordinate pair
None == <<>>

\* null, for the analysis state
NullSafety == [score10 |-> Undef, tip |-> Undef, source |-> "null"]

\* a promise that has no reply and no value yet
NotSettled == [kind |-> "none"]

\* a promise that was not created
NoCall == [status |-> "none", reply |-> NotSettled, value |-> NotSettled]

SearchAtRest ==
    /\ user = FALSE
    /\ searchVariant = 1
    /\ searchPc = "idle"
    /\ origin = "Current Location"
    /\ destination = ""
    /\ userLocation = None
    /\ destinationLocation = None
    /\ startCoords = None
    /\ endCoords = None
    /\ isLoading = FALSE
    /\ analysis = NullSafety
    /\ alerted = FALSE
    /\ routeCalls = [m \in Modes |-> NoCall]
    /\ timeCalls = [m \in Modes |-> NoCall]

\* ---- the memoizing getSafetyAnalysis: values ----
\* Texts are sequences of characters; "-" is the character the key is joined
\* with.  The mode is one of the three mode names, kept as one element.
MemoOrigins == {<<"a">>, <<"a", "-", "b">>}

MemoDestinations == {<<"b">>, <<"b", "-", "b">>}

MemoModes == {"walking", "driving"}

\* `${origin}-${destination}-${mode}`
cacheKey(o, d, m) == o \o <<"-">> \o d \o <<"-">> \o <<m>>

MemoKeys == {cacheKey(o, d, m) : o \in MemoOrigins, d \in MemoDestinations,
                                 m \in MemoModes}

\* cache.has(key) is false
NotCached == [score |-> Undef, isMock |-> TRUE, kind |-> "absent"]

\* { score: parsedData.score, tip: parsedData.tip, isMock: false }
ParsedAnalysis(score) == [score |-> score, isMock |-> FALSE, kind |-> "analysis"]

\* mockResponse(origin, destination, mode)
mockResponse == [score |-> 8, isMock |-> TRUE, kind |-> "analysis"]

\* the scores the provider answers with
MemoScores == {3, 7}

MemoSlots == {1, 2}

IdleCall == [pc |-> "idle", origin |-> <<>>, destination |-> <<>>,
             mode |-> "walking", value |-> NotCached, hit |-> FALSE]

MemoAtRest ==
    /\ cache = [k \in MemoKeys |-> NotCached]
    /\ memoCalls = [i \in MemoSlots |-> IdleCall]
    /\ memoStarted = 0
    /\ obtained = {}

\* undefined, for the travelTime state
NoTravelTime == [durationSeconds |-> Undef, durationMinutes |-> Undef,
                 distance |-> Undef, mode |-> "none"]

SwitchAtRest ==
    /\ travelMode = "walking"
    /\ routePath = "none"
    /\ travelTime = NoTravelTime
    /\ switchPending = {}
    /\ switchCount = 0
    /\ analysisFor = "none"

\* a timer set by startSOS; cancelled records that cancelSOS has run since
NoTimer == [id |-> 0, cancelled |-> FALSE]

SosAtRest ==
    /\ isHoldingSOS = FALSE
    /\ sosActive = FALSE
    /\ sosTimerRef = 0
    /\ sosTimers = {}
    /\ sosStarts = 0
    /\ sosOffTimers = 0
    /\ sosTrigger = NoTimer

\* the default of the initialDuration prop, seconds; the page passes none
initialDuration == 1200

TimerAtRest ==
    /\ safetyTimerActive = FALSE
    /\ timeLeft = initialDuration
    /\ isPaused = FALSE
    /\ timerRef = FALSE
    /\ timerEvent = "none"

SessionAtRest == MemoAtRest /\ SwitchAtRest /\ SosAtRest /\ TimerAtRest

PipelineAtRest ==
    /\ fn = "none"
    /\ pc = "idle"
    /\ mode = "walking"
    /\ hour = 0
    /\ baseDuration = 0
    /\ distance = 0
    /\ geminiCalls = 0
    /\ groqCalls = 0
    /\ tier1 = "none"
    /\ tier2 = "none"
    /\ result = NoResult

PipelineInit ==
    /\ GEMINI_API_KEY \in BOOLEAN
    /\ GROQ_API_KEY \in BOOLEAN
    /\ PipelineAtRest

\* a caller invokes one of the three functions
Call(f, m, base, dist, h) ==
    /\ pc = "idle"
    /\ UNCHANGED <<routeVars, reconVars, searchVars, sessionVars>>
    /\ fn' = f
    /\ mode' = m
    /\ baseDuration' = base
    /\ distance' = dist
    /\ hour' = h
    /\ geminiCalls' = 0
    /\ groqCalls' = 0
    /\ tier1' = "none"
    /\ tier2' = "none"
    /\ result' = NoResult
    /\ pc' = "tier1"
    /\ UNCHANGED <<GEMINI_API_KEY, GROQ_API_KEY>>

\* if (!GEMINI_API_KEY) throw new Error("Gemini Key Missing")
GeminiKeyMissing ==
    /\ pc = "tier1"
    /\ UNCHANGED <<routeVars, reconVars, searchVars, sessionVars>>
    /\ ~GEMINI_API_KEY
    /\ tier1' = "failed"
    /\ pc' = OnGeminiError
    /\ UNCHANGED <<GEMINI_API_KEY, GROQ_API_KEY, fn, mode, hour, baseDuration,
                   distance, geminiCalls, groqCalls, tier2, result>>

\* await model.generateContent(prompt): the request leaves
GeminiSend ==
    /\ pc = "tier1"
    /\ UNCHANGED <<routeVars, reconVars, searchVars, sessionVars>>
    /\ GEMINI_API_KEY
    /\ geminiCalls' = geminiCalls + 1
    /\ pc' = "awaitGemini"
    /\ UNCHANGED <<GEMINI_API_KEY, GROQ_API_KEY, fn, mode, hour, baseDuration,
                   distance, groqCalls, tier1, tier2, result>>

\* the request fails (network, non-2xx, blocked answer): the await throws
GeminiReject ==
    /\ pc = "awaitGemini"
    /\ UNCHANGED <<routeVars, reconVars, searchVars, sessionVars>>
    /\ tier1' = "failed"
    /\ pc' = OnGeminiError
    /\ UNCHANGED <<GEMINI_API_KEY, GROQ_API_KEY, fn, mode, hour, baseDuration,
                   distance, geminiCalls, groqCalls, tier2, result>>

\* the provider answers with a text; it is parsed and the result built
GeminiReply(body) ==
    /\ pc = "awaitGemini"
    /\ UNCHANGED <<routeVars, reconVars, searchVars, sessionVars>>
    /\ IF ParseThrows(body)
       THEN /\ tier1' = "failed"
            /\ pc' = OnGeminiError
            /\ UNCHANGED result
       ELSE /\ tier1' = "ok"
            /\ result' = TierResult(fn, body, "Gemini", baseDuration)
            /\ pc' = AfterGeminiSuccess
    /\ UNCHANGED <<GEMINI_API_KEY, GROQ_API_KEY, fn, mode, hour, baseDuration,
                   distance, geminiCalls, groqCalls, tier2>>

\* if (!GROQ_API_KEY) throw new Error("Groq Key Missing")
GroqKeyMissing ==
    /\ pc = "tier2"
    /\ UNCHANGED <<routeVars, reconVars, searchVars, sessionVars>>
    /\ ~GROQ_API_KEY
    /\ tier2' = "failed"
    /\ pc' = OnGroqError
    /\ UNCHANGED <<GEMINI_API_KEY, GROQ_API_KEY, fn, mode, hour, baseDuration,
                   distance, geminiCalls, groqCalls, tier1, result>>

\* await fetch('https://api.groq.com/...'): the request leaves
GroqSend ==
    /\ pc = "tier2"
    /\ UNCHANGED <<routeVars, reconVars, searchVars, sessionVars>>
    /\ GROQ_API_KEY
    /\ groqCalls' = groqCalls + 1
    /\ pc' = "awaitGroq"
    /\ UNCHANGED <<GEMINI_API_KEY, GROQ_API_KEY, fn, mode, hour, baseDuration,
                   distance, geminiCalls, tier1, tier2, result>>

\* fetch rejects (network failure)
GroqReject ==
    /\ pc = "awaitGroq"
    /\ UNCHANGED <<routeVars, reconVars, searchVars, sessionVars>>
    /\ tier2' = "failed"
    /\ pc' = OnGroqError
    /\ UNCHANGED <<GEMINI_API_KEY, GROQ_API_KEY, fn, mode, hour, baseDuration,
                   distance, geminiCalls, groqCalls, tier1, result>>

\* fetch resolves; status check, envelope and content are parsed
GroqReply(reply) ==
    /\ pc = "awaitGroq"
    /\ UNCHANGED <<routeVars, reconVars, searchVars, sessionVars>>
    /\ IF GroqThrows(reply)
       THEN /\ tier2' = "failed"
            /\ pc' = OnGroqError
            /\ UNCHANGED result
       ELSE /\ tier2' = "ok"
            /\ result' = TierResult(fn, reply.content, "Groq", baseDuration)
            /\ pc' = AfterGroqSuccess
    /\ UNCHANGED <<GEMINI_API_KEY, GROQ_API_KEY, fn, mode, hour, baseDuration,
                   distance, geminiCalls, groqCalls, tier1>>

\* ATTEMPT 3: the deterministic estimate
HeuristicTier ==
    /\ pc = "tier3"
    /\ UNCHANGED <<routeVars, reconVars, searchVars, sessionVars>>
    /\ result' = HeuristicResult(fn, mode, baseDuration, distance, hour)
    /\ pc' = "done"
    /\ UNCHANGED <<GEMINI_API_KEY, GROQ_API_KEY, fn, mode, hour, baseDuration,
                   distance, geminiCalls, groqCalls, tier1, tier2>>

\* the promise has resolved and the caller has taken the result
Return ==
    /\ pc = "done"
    /\ UNCHANGED <<routeVars, reconVars, searchVars, sessionVars>>
    /\ fn' = "none"
    /\ pc' = "idle"
    /\ mode' = "walking"
    /\ hour' = 0
    /\ baseDuration' = 0
    /\ distance' = 0
    /\ geminiCalls' = 0
    /\ groqCalls' = 0
    /\ tier1' = "none"
    /\ tier2' = "none"
    /\ result' = NoResult
    /\ UNCHANGED <<GEMINI_API_KEY, GROQ_API_KEY>>

PipelineNext ==
    \/ \E f \in PipelineFns, m \in Modes, base \in BaseDurations,
          dist \in Distances, h \in PipelineHours : Call(f, m, base, dist, h)
    \/ GeminiKeyMissing
    \/ GeminiSend
    \/ GeminiReject
    \/ \E body \in Bodies(fn) : GeminiReply(body)
    \/ GroqKeyMissing
    \/ GroqSend
    \/ GroqReject
    \/ \E reply \in GroqReplies(fn) : GroqReply(reply)
    \/ HeuristicTier
    \/ Return

----------------------------------------------------------------------------
(* getRoute.  Two variants exist: "validating" checks the provider's       *)
(* duration against an expected-speed model and rounds its results;        *)
(* "plain" (services/RouteService.ts) returns the provider's values as     *)
(* they are.  Distances are in decimetres (distance10), provider durations *)
(* in tenths of a second (duration10), result durations in 1/10000 s.      *)

MaxCoords == 3
MaxRouteDistSteps == 3
MaxRouteDurSteps == 4

\* <<lat, lon>> in 1/10000 degree
Points == {<<515074, -1278>>, <<515155, -922>>, <<515007, -1246>>}

ViaPoint == <<515100, -1100>>

\* getDistanceFromLatLonInKm, tabulated to the decimetre for the points used
getDistanceFromLatLonInDm(p, q) ==
    CASE p = q -> 0
      [] {p, q} = {<<515074, -1278>>, <<515155, -922>>} -> 26231
      [] {p, q} = {<<515074, -1278>>, <<515007, -1246>>} -> 7772
      [] {p, q} = {<<515155, -922>>, <<515007, -1246>>} -> 27814

\* [coord[1], coord[0]]
Swap(c) == <<c[2], c[1]>>

\* route.geometry.coordinates as the provider sends them: [lon, lat] pairs
WireCoordinates(s, e, n) ==
    SubSeq(<<Swap(s), Swap(ViaPoint), Swap(e)>>, 1, n)

RouteDistances10 == {10000} \cup {5005 * k : k \in 0..MaxRouteDistSteps}

RouteDurations10 ==
    {2159, 2160, 14400, 14401} \cup {997 * k : k \in 0..MaxRouteDurSteps}

\* The provider's answer: "nonjson" (response.json() throws), "noroutes"
\* (no routes field), "empty" (routes: []), "nogeometry" (routes[0] has no
\* geometry, so reading its coordinates throws), "route".
RouteReplies(s, e) ==
    {[kind |-> k, coordinates |-> <<>>, distance10 |-> 0, duration10 |-> 0] :
        k \in {"nonjson", "noroutes", "empty", "nogeometry"}}
    \cup {[kind |-> "route", coordinates |-> WireCoordinates(s, e, n),
           distance10 |-> d, duration10 |-> t] :
             n \in 0..MaxCoords, d \in RouteDistances10, t \in RouteDurations10}

NoReply == [kind |-> "none", coordinates |-> <<>>, distance10 |-> 0, duration10 |-> 0]

NullRoute == [kind |-> "null", coordinates |-> <<>>, duration10000 |-> 0,
              distance10 |-> 0]

\* expectedSpeeds of the validating variant, km/h
expectedSpeeds(p) == CASE p = "walking" -> 5
                       [] p = "cycling" -> 15
                       [] p = "driving" -> 50

\* (distanceKm / expectedSpeed) * 3600 seconds, in 1/10000 s
expectedDuration10000(p, d10) == d10 * (3600 \div expectedSpeeds(p))

\* a duration at either limit is already refused
UnrealisticAtLimits(p, d10, t10) ==
    \/ t10 * 1000 >= expectedDuration10000(p, d10) * 2
    \/ t10 * 10000 <= expectedDuration10000(p, d10) * 3

\* duration > expectedDuration * 2 || duration < expectedDuration * 0.3
Unrealistic(p, d10, t10) ==
    \/ t10 * 1000 > expectedDuration10000(p, d10) * 2
    \/ t10 * 10000 < expectedDuration10000(p, d10) * 3

\* the validating variant accepts whatever the provider says
UnvalidatedDuration10000(p, d10, t10) == ((t10 + 5) \div 10) * 10000

\* Math.round(duration) after the plausibility check
ValidatedDuration10000(p, d10, t10) ==
    IF Unrealistic(p, d10, t10)
    THEN ((expectedDuration10000(p, d10) + 5000) \div 10000) * 10000
    ELSE ((t10 + 5) \div 10) * 10000

MapSwap(cs) == [i \in 1..Len(cs) |-> Swap(cs[i])]

\* the object returned inside the try
RouteFrom(impl, reply, p) ==
    IF impl = "validating"
    THEN [kind |-> "route",
          coordinates  |-> MapSwap(reply.coordinates),
          duration10000 |-> ValidatedDuration10000(p, reply.distance10,
                                                   reply.duration10),
          distance10   |-> ((reply.distance10 + 5) \div 10) * 10]
    ELSE [kind |-> "route",
          coordinates  |-> MapSwap(reply.coordinates),
          duration10000 |-> reply.duration10 * 1000,
          distance10   |-> reply.distance10]

\* speeds of the catch branch, km/h
fallbackSpeeds(impl, p) ==
    CASE p = "walking" -> 5
      [] p = "cycling" -> 15
      [] p = "driving" -> IF impl = "validating" THEN 50 ELSE 30

\* the catch branch returns null
CatchRouteReturnsNull(impl, s, e, p) == NullRoute

\* the catch branch forgets the route buffer and uses the slower car speed
CatchRouteNoBuffer(impl, s, e, p) ==
    [kind |-> "route",
     coordinates  |-> <<s, e>>,
     duration10000 |-> getDistanceFromLatLonInDm(s, e)
                          * (3600 \div fallbackSpeeds("plain", p)),
     distance10   |-> getDistanceFromLatLonInDm(s, e)]

\* no getRoute call has returned yet
NoPrevious ==
    [impl |-> "none", start |-> <<0, 0>>, end |-> <<0, 0>>, profile |-> "walking",
     reply |-> NoReply, result |-> NullRoute]

\* the catch branch gives up once an earlier call has already answered
CatchRouteOnlyOnce(impl, s, e, p) ==
    IF previousRoute = NoPrevious THEN CatchRouteNoBuffer(impl, s, e, p) ELSE NullRoute

\* the catch branch: straight-line estimate
CatchRoute(impl, s, e, p) ==
    LET distDm == getDistanceFromLatLonInDm(s, e)
    IN  IF impl = "validating"
        THEN LET adjustedDistCm == distDm * 12       \* distKm * routeBuffer
                 \* (adjustedDistKm / speed) * 3600, in 1/100000 s
                 durationSeconds100000 ==
                     adjustedDistCm * (3600 \div fallbackSpeeds(impl, p))
             IN  [kind |-> "route",
                  coordinates  |-> <<s, e>>,
                  duration10000 |->
                      ((durationSeconds100000 + 50000) \div 100000) * 10000,
                  distance10   |-> ((adjustedDistCm + 50) \div 100) * 10]
        ELSE [kind |-> "route",
              coordinates  |-> <<s, e>>,
              duration10000 |-> distDm * (3600 \div fallbackSpeeds(impl, p)),
              distance10   |-> distDm]

\* data.routes && data.routes.length > 0 is false (throw "No route found"),
\* or an earlier statement of the try threw
RouteThrows(reply) == reply.kind # "route"

RouteAtRest ==
    /\ routeImpl = "none"
    /\ routePc = "idle"
    /\ start = <<0, 0>>
    /\ end = <<0, 0>>
    /\ profile = "walking"
    /\ routeReply = NoReply
    /\ routeResult = NullRoute
    /\ previousRoute = NoPrevious

\* getRoute(start, end, profile): the request leaves
GetRoute(impl, s, e, p) ==
    /\ routePc = "idle"
    /\ UNCHANGED <<pipeVars, reconVars, searchVars, sessionVars>>
    /\ routeImpl' = impl
    /\ start' = s
    /\ end' = e
    /\ profile' = p
    /\ routeReply' = NoReply
    /\ routeResult' = NullRoute
    /\ routePc' = "fetching"
    /\ UNCHANGED previousRoute

\* await fetch(url) rejects: the catch branch answers
FetchReject ==
    /\ routePc = "fetching"
    /\ UNCHANGED <<pipeVars, reconVars, searchVars, sessionVars>>
    /\ routeReply' = [NoReply EXCEPT !.kind = "reject"]
    /\ routeResult' = CatchRoute(routeImpl, start, end, profile)
    /\ routePc' = "done"
    /\ UNCHANGED <<routeImpl, start, end, profile, previousRoute>>

\* fetch resolves and the body is read
FetchReply(reply) ==
    /\ routePc = "fetching"
    /\ UNCHANGED <<pipeVars, reconVars, searchVars, sessionVars>>
    /\ routeReply' = reply
    /\ routeResult' = IF RouteThrows(reply)
                      THEN CatchRoute(routeImpl, start, end, profile)
                      ELSE RouteFrom(routeImpl, reply, profile)
    /\ routePc' = "done"
    /\ UNCHANGED <<routeImpl, start, end, profile, previousRoute>>

\* the caller has taken the RouteData
RouteReturn ==
    /\ routePc = "done"
    /\ UNCHANGED <<pipeVars, reconVars, searchVars, sessionVars>>
    /\ routeImpl' = "none"
    /\ routePc' = "idle"
    /\ start' = <<0, 0>>
    /\ end' = <<0, 0>>
    /\ profile' = "walking"
    /\ routeReply' = NoReply
    /\ routeResult' = NullRoute
    /\ UNCHANGED previousRoute

RouteNext ==
    \/ \E impl \in {"validating", "plain"}, s \in Points, e \in Points,
          p \in Modes : GetRoute(impl, s, e, p)
    \/ FetchReject
    \/ \E reply \in RouteReplies(start, end) : FetchReply(reply)
    \/ RouteReturn

RouteInit ==
    /\ GEMINI_API_KEY = FALSE
    /\ GROQ_API_KEY = FALSE
    /\ PipelineAtRest
    /\ RouteAtRest
    /\ ReconAtRest
    /\ SearchAtRest
    /\ SessionAtRest

SpecRoute == RouteInit /\ [][RouteNext]_vars

\* ---- getRoute called again ----
\* Two ends, and answers of the provider that take each branch of getRoute:
\* a body without routes, a route whose duration is kept and one whose
\* duration is replaced.
AgainPoints == {<<515074, -1278>>, <<515155, -922>>}

AgainReplies(s, e) ==
    {[kind |-> "noroutes", coordinates |-> <<>>, distance10 |-> 0, duration10 |-> 0]}
    \cup {[kind |-> "route", coordinates |-> WireCoordinates(s, e, 3),
           distance10 |-> 10000, duration10 |-> t] : t \in {2160, 7200, 14401}}

\* the caller has taken the RouteData and keeps it while it calls again
RouteReturnAndKeep ==
    /\ routePc = "done"
    /\ UNCHANGED <<pipeVars, reconVars, searchVars, sessionVars>>
    /\ previousRoute' = [impl |-> routeImpl, start |-> start, end |-> end,
                         profile |-> profile, reply |-> routeReply,
                         result |-> routeResult]
    /\ routeImpl' = "none"
    /\ routePc' = "idle"
    /\ start' = <<0, 0>>
    /\ end' = <<0, 0>>
    /\ profile' = "walking"
    /\ routeReply' = NoReply
    /\ routeResult' = NullRoute

RouteAgainNext ==
    \/ \E impl \in {"validating", "plain"}, s \in AgainPoints, e \in AgainPoints,
          p \in Modes : GetRoute(impl, s, e, p)
    \/ FetchReject
    \/ \E reply \in AgainReplies(start, end) : FetchReply(reply)
    \/ RouteReturnAndKeep

SpecRouteAgain == RouteInit /\ [][RouteAgainNext]_vars

Init == PipelineInit /\ RouteAtRest /\ ReconAtRest /\ SearchAtRest /\ SessionAtRest

Spec == Init /\ [][PipelineNext]_vars

----------------------------------------------------------------------------
(* The transport comparison: TransportTimeAnalysis and the props page.tsx
   hands it.  Route distances are metres and route durations whole seconds;
   a ModeAnalysis keeps its duration in hundredths of a second, its distance
   in metres and its average speed in thousandths of a km/h. *)

MaxReconSteps == 2

WalkingDistances == {100} \cup {1000 * k : k \in 0..MaxReconSteps}

WalkingDurations == {220} \cup {750 * k : k \in 0..MaxReconSteps}

CyclingDistances == {100, 1200, 1600, 2100, 2101, 2500}

CyclingDurations == {500 * k * k : k \in 0..MaxReconSteps}

NullRouteOption == [kind |-> "null", distance |-> 0, duration |-> 0]

RouteOption(d, t) == [kind |-> "route", distance |-> d, duration |-> t]

\* the values setRouteOptions stores
RouteOptionsSet ==
    LET walk  == {NullRouteOption} \cup
                 {RouteOption(d, t) : d \in WalkingDistances, t \in WalkingDurations}
        bike  == {NullRouteOption} \cup
                 {RouteOption(d, t) : d \in CyclingDistances, t \in CyclingDurations}
        drive == {NullRouteOption, RouteOption(5000, 400)}
    IN  {[m \in Modes |-> CASE m = "walking" -> w
                            [] m = "cycling" -> c
                            [] m = "driving" -> d] :
            w \in walk, c \in bike, d \in drive}

NullAnalysis == [kind |-> "null", adjustedDuration |-> 0]

\* what analyzeRouteTime can resolve to for one route: the heuristic tier's
\* estimate, or a provider's answer (one that repeats the base duration it
\* was given, one that says five minutes)
AnalysesOf(m, route) ==
    IF route.kind = "null" THEN {NullAnalysis}
    ELSE {[kind |-> "analysis", adjustedDuration |-> a] :
            a \in {generateFallbackTimeAnalysis(m, route.duration,
                                                route.distance).adjustedDuration,
                   route.duration,
                   300}}

\* the values setRouteTimeAnalysis stores for the routes in ro
AnalysesFor(ro) ==
    {[m \in Modes |-> CASE m = "walking" -> w
                        [] m = "cycling" -> c
                        [] m = "driving" -> d] :
        w \in AnalysesOf("walking", ro["walking"]),
        c \in AnalysesOf("cycling", ro["cycling"]),
        d \in {IF ro["driving"].kind = "null" THEN NullAnalysis
               ELSE [kind |-> "analysis",
                     adjustedDuration |-> ro["driving"].duration]}}

ModeOrder == <<"walking", "cycling", "driving">>

\* one element of the array literal rawModes is filtered from
RawMode(ro, m) ==
    LET r == ro[m]
    IN  [mode             |-> m,
         distance         |-> IF r.kind = "route" THEN r.distance ELSE 0,
         duration100      |-> IF r.kind = "route" THEN r.duration * 100 ELSE 0,
         durationMinutes  |-> IF r.kind = "route" THEN (r.duration + 30) \div 60
                                                  ELSE 0,
         averageSpeed1000 |-> IF r.kind = "route" /\ r.duration > 0
                              THEN (r.distance * 3600) \div r.duration
                              ELSE 0]

\* .filter(mode => mode.duration > 0 && mode.distance > 0)
rawModes(ro) ==
    SelectSeq([i \in 1..3 |-> RawMode(ro, ModeOrder[i])],
              LAMBDA x : x.duration100 > 0 /\ x.distance > 0)

\* findIndex(m => m.mode === name), 0 when there is none
findIndex(s, name) ==
    IF \E i \in 1..Len(s) : s[i].mode = name
    THEN CHOOSE i \in 1..Len(s) : s[i].mode = name
    ELSE 0

bikeSpeed == 15

\* (cyclingMode.distance / bikeSpeed) * 3600, in hundredths of a second
correctedDuration100(distanceM) == (distanceM * 360) \div bikeSpeed

\* distanceRatio >= 0.8 && distanceRatio <= 1.2
SimilarDistance(cyclingM, walkingM) ==
    /\ 10 * cyclingM >= 8 * walkingM
    /\ 10 * cyclingM <= 12 * walkingM

\* the array as the component would leave it without the cross-mode step
uncorrectedModes(raw) == raw

\* the cycling entry is recalculated whenever there is one
correctedModesAlways(raw) ==
    LET ci == findIndex(raw, "cycling")
    IN  IF ci # 0
        THEN LET correctedDuration == correctedDuration100(raw[ci].distance)
             IN  [raw EXCEPT ![ci] =
                     [@ EXCEPT !.duration100 = correctedDuration,
                               !.durationMinutes =
                                   (correctedDuration + 3000) \div 6000,
                               !.averageSpeed1000 = bikeSpeed * 1000]]
        ELSE raw

correctedModes(raw) ==
    LET wi == findIndex(raw, "walking")
        ci == findIndex(raw, "cycling")
    IN  IF /\ wi # 0
           /\ ci # 0
           /\ SimilarDistance(raw[ci].distance, raw[wi].distance)
           /\ raw[ci].duration100 > raw[wi].duration100
        THEN LET correctedDuration == correctedDuration100(raw[ci].distance)
             IN  [raw EXCEPT ![ci] =
                     [@ EXCEPT !.duration100 = correctedDuration,
                               !.durationMinutes =
                                   (correctedDuration + 3000) \div 6000,
                               !.averageSpeed1000 = bikeSpeed * 1000]]
        ELSE raw

\* x goes behind every element that is not longer than it
InsertByDuration(s, x) ==
    LET k == Cardinality({i \in 1..Len(s) : s[i].duration100 <= x.duration100})
    IN  SubSeq(s, 1, k) \o <<x>> \o SubSeq(s, k + 1, Len(s))

RECURSIVE SortByDuration(_)
\* correctedModes.sort((a, b) => a.duration - b.duration), a stable sort
SortByDuration(s) ==
    IF s = <<>> THEN <<>>
    ELSE InsertByDuration(SortByDuration(SubSeq(s, 1, Len(s) - 1)), s[Len(s)])

\* getDisplayDuration(mode), in hundredths of a second
getDisplayDuration100(rta, entry) ==
    IF rta[entry.mode].kind # "null"
    THEN rta[entry.mode].adjustedDuration * 100
    ELSE entry.duration100

\* formatTime(seconds): the hours and minutes shown
formatTime(seconds100) ==
    [hours   |-> seconds100 \div 360000,
     minutes |-> (seconds100 % 360000) \div 6000]

\* page.tsx stores the three analyses; the component is rendered again
setRouteTimeAnalysis(rta) ==
    /\ rendered
    /\ routeTimeAnalysis = [m \in Modes |-> NullAnalysis]
    /\ UNCHANGED <<pipeVars, routeVars, searchVars, sessionVars>>
    /\ routeTimeAnalysis' = rta
    /\ modes' = NoModes
    /\ rendered' = FALSE
    /\ UNCHANGED routeOptions

\* one render of the component
TransportTimeAnalysis ==
    /\ ~rendered
    /\ UNCHANGED <<pipeVars, routeVars, searchVars, sessionVars>>
    /\ modes' = SortByDuration(correctedModes(rawModes(routeOptions)))
    /\ rendered' = TRUE
    /\ UNCHANGED <<routeOptions, routeTimeAnalysis>>

ReconNext ==
    \/ \E rta \in AnalysesFor(routeOptions) : setRouteTimeAnalysis(rta)
    \/ TransportTimeAnalysis

\* the routes of one search have been stored, the analyses not yet
ReconInit ==
    /\ GEMINI_API_KEY = FALSE
    /\ GROQ_API_KEY = FALSE
    /\ PipelineAtRest
    /\ RouteAtRest
    /\ routeOptions \in RouteOptionsSet
    /\ routeTimeAnalysis = [m \in Modes |-> NullAnalysis]
    /\ modes = NoModes
    /\ rendered = FALSE
    /\ SearchAtRest
    /\ SessionAtRest

SpecReconcile == ReconInit /\ [][ReconNext]_vars

----------------------------------------------------------------------------
(* The heuristic tiers on their own: each estimator applied to one route of
   a given mode, hour, base duration (seconds) and distance (metres). *)

MaxHeurBaseSteps == 5

MaxHeurDistSteps == 3

HeuristicBases == {600, 2160, 2220} \cup {210 * k : k \in 0..MaxHeurBaseSteps}

\* with the last distance that is not a long walk and the first that is
HeuristicDistances == {3000, 3001} \cup {1750 * k : k \in 0..MaxHeurDistSteps}

\* the last tier of the three-tier analyzeRouteTime
FallbackTimeAnalysis ==
    /\ pc = "idle"
    /\ UNCHANGED <<routeVars, reconVars, searchVars, sessionVars>>
    /\ UNCHANGED <<GEMINI_API_KEY, GROQ_API_KEY, mode, hour, baseDuration,
                   distance, geminiCalls, groqCalls, tier1, tier2>>
    /\ fn' = "generateFallbackTimeAnalysis"
    /\ result' = generateFallbackTimeAnalysis(mode, baseDuration, distance)
    /\ pc' = "done"

\* the catch branch of the single-provider analyzeRouteTime
CatchFallback ==
    /\ pc = "idle"
    /\ UNCHANGED <<routeVars, reconVars, searchVars, sessionVars>>
    /\ UNCHANGED <<GEMINI_API_KEY, GROQ_API_KEY, mode, hour, baseDuration,
                   distance, geminiCalls, groqCalls, tier1, tier2>>
    /\ fn' = "analyzeRouteTime catch"
    /\ result' = analyzeRouteTimeCatchFallback(mode, baseDuration, distance)
    /\ pc' = "done"

\* the last tier of analyzeLocationTiming
IntelligentFallbackTiming ==
    /\ pc = "idle"
    /\ UNCHANGED <<routeVars, reconVars, searchVars, sessionVars>>
    /\ UNCHANGED <<GEMINI_API_KEY, GROQ_API_KEY, mode, hour, baseDuration,
                   distance, geminiCalls, groqCalls, tier1, tier2>>
    /\ fn' = "generateIntelligentFallbackTiming"
    /\ result' = generateIntelligentFallbackTiming(mode, BaseMinutes(baseDuration),
                                                   distance, hour)
    /\ pc' = "done"

HeuristicNext ==
    \/ FallbackTimeAnalysis
    \/ CatchFallback
    \/ IntelligentFallbackTiming

HeuristicInit ==
    /\ GEMINI_API_KEY = FALSE
    /\ GROQ_API_KEY = FALSE
    /\ fn = "none"
    /\ pc = "idle"
    /\ mode \in Modes
    /\ hour \in Hours
    /\ baseDuration \in HeuristicBases
    /\ distance \in HeuristicDistances
    /\ geminiCalls = 0
    /\ groqCalls = 0
    /\ tier1 = "none"
    /\ tier2 = "none"
    /\ result = NoResult
    /\ RouteAtRest
    /\ ReconAtRest
    /\ SearchAtRest
    /\ SessionAtRest

SpecHeuristic == HeuristicInit /\ [][HeuristicNext]_vars

----------------------------------------------------------------------------
(* handleSearch of page.tsx.  Variant 1 (the first handleSearch of the file)
   fetches the three routes, then the three time analyses, then the safety
   analysis; variant 2 has no time analyses.  A promise is pending until the
   external call behind it settles; getRoute, analyzeRouteTime and
   getSafetyAnalysis catch every failure and so always resolve. *)

\* where the user is, what the autocomplete stored, what Nominatim finds
HereCoords == <<515074, -1278>>

PickedCoords == <<515155, -922>>

GeocodedOrigin == <<515007, -1246>>

Origins == {"Current Location", "typed origin"}

Destinations == {"", "typed destination"}

\* what the routing provider answers to one of the three requests
SearchReplies(s, e) ==
    {[NoReply EXCEPT !.kind = "reject"]}
    \cup {[kind |-> "route", coordinates |-> WireCoordinates(s, e, 3),
           distance10 |-> 10000, duration10 |-> t] : t \in {2160, 14401}}

\* what getSafetyAnalysis resolves to
SafetyResults ==
    {SafetyFallback, [score10 |-> 90, tip |-> 1, source |-> "Gemini"]}

\* the modes whose getRoute is called inside the array literal handed to
\* Promise.all, before the await
CalledOneAtATime == {"walking"}

CalledInPromiseAll == Modes

\* a RouteData as the comparison component reads it: metres and seconds
AsRouteOption(r) ==
    IF r.kind = "null" THEN NullRouteOption
    ELSE RouteOption(r.distance10 \div 10, r.duration10000 \div 10000)

Pending == [status |-> "pending", reply |-> NotSettled, value |-> NotSettled]

Resolved(reply, value) == [status |-> "resolved", reply |-> reply, value |-> value]

AllResolved(calls) == \A m \in Modes : calls[m].status = "resolved"

\* the form is submitted
handleSearch(o, d) ==
    /\ searchPc = "idle"
    /\ UNCHANGED <<pipeVars, routeVars, modes, rendered, sessionVars>>
    /\ origin' = o
    /\ destination' = d
    /\ IF d = ""
       THEN /\ searchPc' = "returned"
            /\ UNCHANGED <<isLoading, analysis, startCoords>>
       ELSE /\ isLoading' = TRUE
            /\ analysis' = NullSafety
            /\ startCoords' = userLocation
            /\ searchPc' = IF o # "Current Location" THEN "geocodeOrigin"
                           ELSE "checkStart"
    /\ UNCHANGED <<user, searchVariant, userLocation, destinationLocation, endCoords,
                   alerted, routeCalls, timeCalls, routeOptions,
                   routeTimeAnalysis>>

\* await geocode(origin) settles: coordinates or null
GeocodeOrigin(coords) ==
    /\ searchPc = "geocodeOrigin"
    /\ UNCHANGED <<pipeVars, routeVars, modes, rendered, sessionVars>>
    /\ IF coords # None
       THEN startCoords' = coords /\ userLocation' = coords
       ELSE UNCHANGED <<startCoords, userLocation>>
    /\ searchPc' = "checkStart"
    /\ UNCHANGED <<user, searchVariant, origin, destination, destinationLocation,
                   endCoords, isLoading, analysis, alerted, routeCalls,
                   timeCalls, routeOptions, routeTimeAnalysis>>

\* the early return without setIsLoading(false)
NoStartLocationStaysLoading ==
    /\ searchPc = "checkStart"
    /\ startCoords = None
    /\ UNCHANGED <<pipeVars, routeVars, modes, rendered, sessionVars>>
    /\ alerted' = TRUE
    /\ searchPc' = "returned"
    /\ UNCHANGED <<user, searchVariant, origin, destination, userLocation,
                   destinationLocation, startCoords, endCoords, analysis,
                   routeCalls, timeCalls, routeOptions, routeTimeAnalysis,
                   isLoading>>

\* if (!startCoords) { setIsLoading(false); alert(...); return; }
NoStartLocation ==
    /\ searchPc = "checkStart"
    /\ startCoords = None
    /\ UNCHANGED <<pipeVars, routeVars, modes, rendered, sessionVars>>
    /\ isLoading' = FALSE
    /\ alerted' = TRUE
    /\ searchPc' = "returned"
    /\ UNCHANGED <<user, searchVariant, origin, destination, userLocation,
                   destinationLocation, startCoords, endCoords, analysis,
                   routeCalls, timeCalls, routeOptions, routeTimeAnalysis>>

\* try { endCoords = destinationLocation; if (!endCoords) geocode(destination)
EnterTry ==
    /\ searchPc = "checkStart"
    /\ startCoords # None
    /\ UNCHANGED <<pipeVars, routeVars, modes, rendered, sessionVars>>
    /\ endCoords' = destinationLocation
    /\ searchPc' = IF destinationLocation = None THEN "geocodeDestination"
                   ELSE "haveCoords"
    /\ UNCHANGED <<user, searchVariant, origin, destination, userLocation,
                   destinationLocation, startCoords, isLoading, analysis,
                   alerted, routeCalls, timeCalls, routeOptions,
                   routeTimeAnalysis>>

\* await geocode(destination) settles: coordinates or null
GeocodeDestination(coords) ==
    /\ searchPc = "geocodeDestination"
    /\ UNCHANGED <<pipeVars, routeVars, modes, rendered, sessionVars>>
    /\ IF coords # None
       THEN endCoords' = coords /\ destinationLocation' = coords
       ELSE UNCHANGED <<endCoords, destinationLocation>>
    /\ searchPc' = "haveCoords"
    /\ UNCHANGED <<user, searchVariant, origin, destination, userLocation,
                   startCoords, isLoading, analysis, alerted, routeCalls,
                   timeCalls, routeOptions, routeTimeAnalysis>>

\* if (startCoords && endCoords): the three getRoute calls are made and
\* Promise.all awaited
FanOutRoutes ==
    /\ searchPc = "haveCoords"
    /\ startCoords # None /\ endCoords # None
    /\ UNCHANGED <<pipeVars, routeVars, modes, rendered, sessionVars>>
    /\ routeCalls' = [m \in Modes |-> IF m \in CalledInPromiseAll THEN Pending
                                      ELSE NoCall]
    /\ searchPc' = "routes"
    /\ UNCHANGED <<user, searchVariant, origin, destination, userLocation,
                   destinationLocation, startCoords, endCoords, isLoading,
                   analysis, alerted, timeCalls, routeOptions,
                   routeTimeAnalysis>>

\* the block is skipped: getSafetyAnalysis is called without coordinates
SkipRoutes ==
    /\ searchPc = "haveCoords"
    /\ startCoords = None \/ endCoords = None
    /\ UNCHANGED <<pipeVars, routeVars, modes, rendered, sessionVars>>
    /\ searchPc' = "safety"
    /\ UNCHANGED <<user, searchVariant, origin, destination, userLocation,
                   destinationLocation, startCoords, endCoords, isLoading,
                   analysis, alerted, routeCalls, timeCalls, routeOptions,
                   routeTimeAnalysis>>

\* one getRoute settles: a route from the provider, or the fallback route
RouteSettles(m, reply) ==
    /\ searchPc = "routes"
    /\ routeCalls[m].status = "pending"
    /\ UNCHANGED <<pipeVars, routeVars, modes, rendered, sessionVars>>
    /\ routeCalls' =
          [routeCalls EXCEPT ![m] =
              Resolved(reply,
                       IF RouteThrows(reply)
                       THEN CatchRoute("validating", startCoords, endCoords, m)
                       ELSE RouteFrom("validating", reply, m))]
    /\ UNCHANGED <<user, searchVariant, searchPc, origin, destination, userLocation,
                   destinationLocation, startCoords, endCoords, isLoading,
                   analysis, alerted, timeCalls, routeOptions,
                   routeTimeAnalysis>>

\* Promise.all resolves: setRouteOptions; variant 1 calls analyzeRouteTime
\* for every route that is not null and awaits the three
JoinRoutes ==
    /\ searchPc = "routes"
    /\ AllResolved(routeCalls)
    /\ UNCHANGED <<pipeVars, routeVars, modes, rendered, sessionVars>>
    /\ routeOptions' = [m \in Modes |-> AsRouteOption(routeCalls[m].value)]
    /\ IF searchVariant = 1
       THEN /\ timeCalls' = [m \in Modes |->
                                IF routeCalls[m].value.kind = "null"
                                THEN Resolved(NotSettled, NullAnalysis)
                                ELSE Pending]
            /\ searchPc' = "times"
       ELSE /\ searchPc' = "safety"
            /\ UNCHANGED timeCalls
    /\ UNCHANGED <<user, searchVariant, origin, destination, userLocation,
                   destinationLocation, startCoords, endCoords, isLoading,
                   analysis, alerted, routeCalls, routeTimeAnalysis>>

\* one analyzeRouteTime settles
TimeSettles(m, a) ==
    /\ searchPc = "times"
    /\ timeCalls[m].status = "pending"
    /\ UNCHANGED <<pipeVars, routeVars, modes, rendered, sessionVars>>
    /\ timeCalls' = [timeCalls EXCEPT ![m] = Resolved(NotSettled, a)]
    /\ UNCHANGED <<user, searchVariant, searchPc, origin, destination, userLocation,
                   destinationLocation, startCoords, endCoords, isLoading,
                   analysis, alerted, routeCalls, routeOptions,
                   routeTimeAnalysis>>

\* Promise.all resolves: setRouteTimeAnalysis; getSafetyAnalysis is called
JoinTimes ==
    /\ searchPc = "times"
    /\ AllResolved(timeCalls)
    /\ UNCHANGED <<pipeVars, routeVars, modes, rendered, sessionVars>>
    /\ routeTimeAnalysis' = [m \in Modes |-> timeCalls[m].value]
    /\ searchPc' = "safety"
    /\ UNCHANGED <<user, searchVariant, origin, destination, userLocation,
                   destinationLocation, startCoords, endCoords, isLoading,
                   analysis, alerted, routeCalls, timeCalls, routeOptions>>

\* getSafetyAnalysis (and the 1.5 s timer) settle: setAnalysis(result);
\* if (user) setSafetyTimerActive(true); finally setIsLoading(false)
SafetySettles(res) ==
    /\ searchPc = "safety"
    /\ UNCHANGED <<pipeVars, routeVars, modes, rendered, memoVars, switchVars, sosVars>>
    /\ analysis' = res
    /\ IF user /\ ~safetyTimerActive
       THEN /\ safetyTimerActive' = TRUE
            /\ timeLeft' = IF initialDuration # 0 THEN initialDuration ELSE timeLeft
            /\ timerRef' = (~isPaused /\ timeLeft' > 0)
            /\ timerEvent' = "activate"
            /\ UNCHANGED isPaused
       ELSE UNCHANGED timerVars
    /\ isLoading' = FALSE
    /\ searchPc' = "returned"
    /\ UNCHANGED <<user, searchVariant, origin, destination, userLocation,
                   destinationLocation, startCoords, endCoords, alerted,
                   routeCalls, timeCalls, routeOptions, routeTimeAnalysis>>

\* what the catch of the second page.tsx shows from localStorage when the
\* page is offline: a stored analysis marked 'EST'
OfflineCached == {[r EXCEPT !.source = "EST", !.tip = 2] : r \in SafetyResults}

\* the second page.tsx: setAnalysis(result), then localStorage.setItem throws;
\* catch: console.error, the stored analysis when offline; finally
\* setIsLoading(false)
SafetySettlesStoreThrows(res, shown) ==
    /\ searchPc = "safety"
    /\ searchVariant = 2
    /\ shown = res \/ (startCoords # None /\ endCoords # None)
    /\ UNCHANGED <<pipeVars, routeVars, modes, rendered, sessionVars>>
    /\ analysis' = shown
    /\ isLoading' = FALSE
    /\ searchPc' = "returned"
    /\ UNCHANGED <<user, searchVariant, origin, destination, userLocation,
                   destinationLocation, startCoords, endCoords, alerted,
                   routeCalls, timeCalls, routeOptions, routeTimeAnalysis>>

\* the answers the requests in flight can get
RepliesInFlight ==
    IF searchPc = "routes" THEN SearchReplies(startCoords, endCoords) ELSE {}

SearchNext ==
    \/ \E o \in Origins, d \in Destinations : handleSearch(o, d)
    \/ \E coords \in {None, GeocodedOrigin} : GeocodeOrigin(coords)
    \/ NoStartLocation
    \/ EnterTry
    \/ \E coords \in {None, PickedCoords} : GeocodeDestination(coords)
    \/ FanOutRoutes
    \/ SkipRoutes
    \/ \E m \in Modes, reply \in RepliesInFlight : RouteSettles(m, reply)
    \/ JoinRoutes
    \/ \E m \in Modes : \E a \in AnalysesOf(m, routeOptions[m]) :
          TimeSettles(m, a)
    \/ JoinTimes
    \/ \E res \in SafetyResults : SafetySettles(res)
    \/ \E res \in SafetyResults : \E shown \in {res} \cup OfflineCached :
          SafetySettlesStoreThrows(res, shown)

\* the page before a search: the position may or may not be known, a
\* destination may or may not have been picked from the suggestions
SearchInit ==
    /\ GEMINI_API_KEY = FALSE
    /\ GROQ_API_KEY = FALSE
    /\ PipelineAtRest
    /\ RouteAtRest
    /\ ReconAtRest
    /\ user \in BOOLEAN
    /\ searchVariant \in {1, 2}
    /\ searchPc = "idle"
    /\ origin = "Current Location"
    /\ destination = ""
    /\ userLocation \in {None, HereCoords}
    /\ destinationLocation \in {None, PickedCoords}
    /\ startCoords = None
    /\ endCoords = None
    /\ isLoading = FALSE
    /\ analysis = NullSafety
    /\ alerted = FALSE
    /\ routeCalls = [m \in Modes |-> NoCall]
    /\ timeCalls = [m \in Modes |-> NoCall]
    /\ SessionAtRest

SpecSearch == SearchInit /\ [][SearchNext]_vars

\* the steps handleSearch takes by itself once the form was submitted: every
\* awaited call settles and the statements after it run
SearchProceeds ==
    \/ \E coords \in {None, GeocodedOrigin} : GeocodeOrigin(coords)
    \/ NoStartLocation
    \/ EnterTry
    \/ \E coords \in {None, PickedCoords} : GeocodeDestination(coords)
    \/ FanOutRoutes
    \/ SkipRoutes
    \/ \E m \in Modes, reply \in RepliesInFlight : RouteSettles(m, reply)
    \/ JoinRoutes
    \/ \E m \in Modes : \E a \in AnalysesOf(m, routeOptions[m]) :
          TimeSettles(m, a)
    \/ JoinTimes
    \/ \E res \in SafetyResults : SafetySettles(res)
    \/ \E res \in SafetyResults : \E shown \in {res} \cup OfflineCached :
          SafetySettlesStoreThrows(res, shown)

SpecSearchFair == SearchInit /\ [][SearchNext]_vars /\ WF_vars(SearchProceeds)

----------------------------------------------------------------------------
(* The memoizing getSafetyAnalysis *)

MaxMemoCalls == 3

\* apiKey is missing or the placeholder: the simulated answer is returned
CallWithoutKey(i, o, d, m) ==
    /\ ~GEMINI_API_KEY
    /\ memoCalls[i].pc = "idle"
    /\ memoStarted < MaxMemoCalls
    /\ UNCHANGED <<pipeVars, routeVars, reconVars, searchVars, switchVars, sosVars, timerVars>>
    /\ memoCalls' = [memoCalls EXCEPT ![i] =
                        [pc |-> "returned", origin |-> o, destination |-> d,
                         mode |-> m, value |-> mockResponse, hit |-> FALSE]]
    /\ memoStarted' = memoStarted + 1
    /\ UNCHANGED <<cache, obtained>>

\* cache.has(key): the stored analysis is returned, no request is made
CallHit(i, o, d, m) ==
    /\ GEMINI_API_KEY
    /\ memoCalls[i].pc = "idle"
    /\ memoStarted < MaxMemoCalls
    /\ cache[cacheKey(o, d, m)] # NotCached
    /\ UNCHANGED <<pipeVars, routeVars, reconVars, searchVars, switchVars, sosVars, timerVars>>
    /\ memoCalls' = [memoCalls EXCEPT ![i] =
                        [pc |-> "returned", origin |-> o, destination |-> d,
                         mode |-> m, value |-> cache[cacheKey(o, d, m)],
                         hit |-> TRUE]]
    /\ memoStarted' = memoStarted + 1
    /\ UNCHANGED <<cache, obtained>>

\* nothing stored under the key: await model.generateContent(prompt)
CallMiss(i, o, d, m) ==
    /\ GEMINI_API_KEY
    /\ memoCalls[i].pc = "idle"
    /\ memoStarted < MaxMemoCalls
    /\ cache[cacheKey(o, d, m)] = NotCached
    /\ UNCHANGED <<pipeVars, routeVars, reconVars, searchVars, switchVars, sosVars, timerVars>>
    /\ memoCalls' = [memoCalls EXCEPT ![i] =
                        [pc |-> "awaiting", origin |-> o, destination |-> d,
                         mode |-> m, value |-> NotCached, hit |-> FALSE]]
    /\ memoStarted' = memoStarted + 1
    /\ UNCHANGED <<cache, obtained>>

\* the provider answered with JSON: the analysis is stored and returned
ProviderAnswers(i, score) ==
    /\ memoCalls[i].pc = "awaiting"
    /\ UNCHANGED <<pipeVars, routeVars, reconVars, searchVars, switchVars, sosVars, timerVars>>
    /\ LET c == memoCalls[i]
           analysisOfCall == ParsedAnalysis(score)
       IN  /\ cache' = [cache EXCEPT ![cacheKey(c.origin, c.destination, c.mode)]
                                        = analysisOfCall]
           /\ memoCalls' = [memoCalls EXCEPT ![i] =
                               [c EXCEPT !.pc = "returned",
                                         !.value = analysisOfCall]]
           /\ obtained' = obtained \cup
                              {<<c.origin, c.destination, c.mode, analysisOfCall>>}
    /\ UNCHANGED memoStarted

\* generateContent rejected, the text was empty or JSON.parse threw: the
\* catch branch returns the simulated answer
ProviderFails(i) ==
    /\ memoCalls[i].pc = "awaiting"
    /\ UNCHANGED <<pipeVars, routeVars, reconVars, searchVars, switchVars, sosVars, timerVars>>
    /\ memoCalls' = [memoCalls EXCEPT ![i] =
                        [@ EXCEPT !.pc = "returned", !.value = mockResponse]]
    /\ UNCHANGED <<cache, memoStarted, obtained>>

\* the caller has taken the SafetyAnalysis
MemoReturn(i) ==
    /\ memoCalls[i].pc = "returned"
    /\ UNCHANGED <<pipeVars, routeVars, reconVars, searchVars, switchVars, sosVars, timerVars>>
    /\ memoCalls' = [memoCalls EXCEPT ![i] = IdleCall]
    /\ UNCHANGED <<cache, memoStarted, obtained>>

MemoNext ==
    \/ \E i \in MemoSlots, o \in MemoOrigins, d \in MemoDestinations,
          m \in MemoModes : CallWithoutKey(i, o, d, m)
    \/ \E i \in MemoSlots, o \in MemoOrigins, d \in MemoDestinations,
          m \in MemoModes : CallHit(i, o, d, m)
    \/ \E i \in MemoSlots, o \in MemoOrigins, d \in MemoDestinations,
          m \in MemoModes : CallMiss(i, o, d, m)
    \/ \E i \in MemoSlots, score \in MemoScores : ProviderAnswers(i, score)
    \/ \E i \in MemoSlots : ProviderFails(i)
    \/ \E i \in MemoSlots : MemoReturn(i)

MemoInit ==
    /\ GEMINI_API_KEY \in BOOLEAN
    /\ GROQ_API_KEY = FALSE
    /\ PipelineAtRest
    /\ RouteAtRest
    /\ ReconAtRest
    /\ SearchAtRest
    /\ SessionAtRest

SpecMemo == MemoInit /\ [][MemoNext]_vars

----------------------------------------------------------------------------
(* switchMode of page.tsx *)

MaxSwitches == 3

\* the tip shown while the new analysis is awaited: "Updating for <mode>..."
UpdatingTip(m) == CASE m = "walking" -> 10
                    [] m = "cycling" -> 11
                    [] m = "driving" -> 12

\* speeds of estimateTravelTime, km/h
travelSpeeds(m) == CASE m = "walking" -> 5
                     [] m = "cycling" -> 15
                     [] m = "driving" -> 40

\* estimateTravelTime(distanceMeters, mode)
estimateTravelTime(distanceMeters, m) ==
    LET durationSeconds ==
            (72 * distanceMeters + 10 * travelSpeeds(m)) \div (20 * travelSpeeds(m))
    IN  [durationSeconds |-> durationSeconds,
         durationMinutes |-> (durationSeconds + 30) \div 60,
         distance |-> distanceMeters,
         mode |-> m]

\* the routes a finished search left in routeOptions
SwitchRouteOptions ==
    {[m \in Modes |-> NullRouteOption],
     [m \in Modes |-> CASE m = "walking" -> RouteOption(1000, 720)
                        [] m = "cycling" -> RouteOption(1200, 288)
                        [] m = "driving" -> NullRouteOption]}

\* switchMode(mode), up to its await
switchMode(m) ==
    /\ switchCount < MaxSwitches
    /\ UNCHANGED <<pipeVars, routeVars, reconVars, memoVars, sosVars, timerVars>>
    /\ travelMode' = m
    /\ analysis' = IF analysis.source # "null"
                   THEN [analysis EXCEPT !.tip = UpdatingTip(m)]
                   ELSE analysis
    /\ IF routeOptions[m].kind # "null"
       THEN /\ routePath' = m
            /\ travelTime' = IF searchVariant = 2
                              THEN estimateTravelTime(routeOptions[m].distance, m)
                              ELSE travelTime
       ELSE UNCHANGED <<routePath, travelTime>>
    /\ switchCount' = switchCount + 1
    /\ switchPending' = IF destination # ""
                         THEN switchPending \cup
                                  {[id |-> switchCount + 1, mode |-> m]}
                         ELSE switchPending
    /\ UNCHANGED <<user, searchVariant, searchPc, origin, destination, userLocation,
                   destinationLocation, startCoords, endCoords, isLoading,
                   alerted, routeCalls, timeCalls, analysisFor>>

\* await getSafetyAnalysis(origin, destination, mode) settles:
\* setAnalysis(result)
SwitchSettles(req, res) ==
    /\ req \in switchPending
    /\ UNCHANGED <<pipeVars, routeVars, reconVars, memoVars, sosVars, timerVars>>
    /\ analysis' = res
    /\ analysisFor' = req.mode
    /\ switchPending' = switchPending \ {req}
    /\ UNCHANGED <<user, searchVariant, searchPc, origin, destination, userLocation,
                   destinationLocation, startCoords, endCoords, isLoading,
                   alerted, routeCalls, timeCalls, travelMode, routePath,
                   travelTime, switchCount>>

SwitchNext ==
    \/ \E m \in Modes : switchMode(m)
    \/ \E req \in switchPending, res \in SafetyResults : SwitchSettles(req, res)

\* a search for walking has finished, or none was made
SwitchInit ==
    /\ GEMINI_API_KEY = FALSE
    /\ GROQ_API_KEY = FALSE
    /\ PipelineAtRest
    /\ RouteAtRest
    /\ routeOptions \in SwitchRouteOptions
    /\ routeTimeAnalysis = [m \in Modes |-> NullAnalysis]
    /\ modes = NoModes
    /\ rendered = FALSE
    /\ user = FALSE
    /\ searchVariant \in {1, 2}
    /\ searchPc = "idle"
    /\ origin = "Current Location"
    /\ destination \in Destinations
    /\ userLocation = HereCoords
    /\ destinationLocation = None
    /\ startCoords = None
    /\ endCoords = None
    /\ isLoading = FALSE
    /\ analysis \in IF destination = "" THEN {NullSafety} ELSE SafetyResults
    /\ alerted = FALSE
    /\ routeCalls = [m \in Modes |-> NoCall]
    /\ timeCalls = [m \in Modes |-> NoCall]
    /\ MemoAtRest
    /\ SosAtRest
    /\ TimerAtRest
    /\ travelMode = "walking"
    /\ routePath = IF routeOptions["walking"].kind # "null" THEN "walking" ELSE "none"
    /\ travelTime = NoTravelTime
    /\ switchPending = {}
    /\ switchCount = 0
    /\ analysisFor = IF destination = "" THEN "none" ELSE "walking"

SpecSwitch == SwitchInit /\ [][SwitchNext]_vars

----------------------------------------------------------------------------
(* The SOS hold button of page.tsx *)

MaxSosStarts == 3

\* onMouseDown / onTouchStart: a new 2 s timer is set and stored in the ref;
\* a timer the ref held before is left pending
startSOS ==
    /\ sosStarts < MaxSosStarts
    /\ UNCHANGED <<pipeVars, routeVars, reconVars, searchVars, memoVars, switchVars, timerVars>>
    /\ isHoldingSOS' = TRUE
    /\ sosStarts' = sosStarts + 1
    /\ sosTimerRef' = sosStarts + 1
    /\ sosTimers' = sosTimers \cup {[id |-> sosStarts + 1, cancelled |-> FALSE]}
    /\ UNCHANGED <<sosActive, sosOffTimers, sosTrigger>>

\* onMouseUp / onMouseLeave / onTouchEnd: clearTimeout of the timer in the ref
cancelSOS ==
    /\ UNCHANGED <<pipeVars, routeVars, reconVars, searchVars, memoVars, switchVars, timerVars>>
    /\ isHoldingSOS' = FALSE
    /\ sosTimerRef' = 0
    /\ sosTimers' = {[t EXCEPT !.cancelled = TRUE] :
                        t \in {u \in sosTimers : sosTimerRef = 0 \/ u.id # sosTimerRef}}
    /\ UNCHANGED <<sosActive, sosStarts, sosOffTimers, sosTrigger>>

\* 2 s after it was set a pending timer runs triggerSOS
HoldTimerFires(t) ==
    /\ t \in sosTimers
    /\ UNCHANGED <<pipeVars, routeVars, reconVars, searchVars, memoVars, switchVars, timerVars>>
    /\ sosTimers' = sosTimers \ {t}
    /\ sosActive' = TRUE
    /\ isHoldingSOS' = FALSE
    /\ sosOffTimers' = sosOffTimers + 1
    /\ sosTrigger' = t
    /\ UNCHANGED <<sosTimerRef, sosStarts>>

\* the timer set by triggerSOS: setSosActive(false)
SosDisplayEnds ==
    /\ sosOffTimers > 0
    /\ UNCHANGED <<pipeVars, routeVars, reconVars, searchVars, memoVars, switchVars, timerVars>>
    /\ sosActive' = FALSE
    /\ sosOffTimers' = sosOffTimers - 1
    /\ UNCHANGED <<isHoldingSOS, sosTimerRef, sosTimers, sosStarts, sosTrigger>>

SosNext ==
    \/ startSOS
    \/ cancelSOS
    \/ \E t \in sosTimers : HoldTimerFires(t)
    \/ SosDisplayEnds

SosInit ==
    /\ GEMINI_API_KEY = FALSE
    /\ GROQ_API_KEY = FALSE
    /\ PipelineAtRest
    /\ RouteAtRest
    /\ ReconAtRest
    /\ SearchAtRest
    /\ SessionAtRest

SpecSos == SosInit /\ [][SosNext]_vars

----------------------------------------------------------------------------
(* SafetyTimer.  A handler is taken together with the render and the effects *)
(* it causes: the cleanup of the second effect clears the interval and its   *)
(* body sets a new one when its condition holds.                             *)

\* the longest countdown followed: the buttons add time up to it
MaxTimeLeft == 2100

\* the interval goes on although the timer is paused
intervalRunsWhilePaused(active, paused, left) == active /\ left > 0

\* isActive && !isPaused && timeLeft > 0
intervalRuns(active, paused, left) == active /\ ~paused /\ left > 0

\* the countdown does not count
tickUpdaterHolds(prev) == prev

\* the updater of the interval callback: prev <= 1 ? 0 : prev - 1
tickUpdater(prev) == IF prev <= 1 THEN 0 ELSE prev - 1

\* the minutes of the two addTime buttons
AddTimeMinutes == {5, 15}

\* setSafetyTimerActive(true): the first effect resets timeLeft
ActivateTimer ==
    /\ ~safetyTimerActive
    /\ UNCHANGED <<pipeVars, routeVars, reconVars, searchVars, memoVars, switchVars, sosVars>>
    /\ safetyTimerActive' = TRUE
    /\ timeLeft' = IF initialDuration # 0 THEN initialDuration ELSE timeLeft
    /\ timerRef' = intervalRuns(TRUE, isPaused, timeLeft')
    /\ timerEvent' = "activate"
    /\ UNCHANGED isPaused

\* the interval callback, one second after the interval was set.  With
\* prev <= 1 it clears the interval itself and calls onTriggerSOS; when the
\* updater returns prev there is no render and the interval goes on.
Tick ==
    /\ timerRef
    /\ UNCHANGED <<pipeVars, routeVars, reconVars, searchVars, memoVars, switchVars, sosVars>>
    /\ timeLeft' = tickUpdater(timeLeft)
    /\ timerEvent' = IF timeLeft <= 1 THEN "lastTick" ELSE "tick"
    /\ timerRef' = IF timeLeft' = timeLeft
                    THEN (timerRef /\ timeLeft > 1)
                    ELSE intervalRuns(safetyTimerActive, isPaused, timeLeft')
    /\ UNCHANGED <<safetyTimerActive, isPaused>>

\* the pause / play button: setIsPaused(!isPaused)
TogglePause ==
    /\ safetyTimerActive
    /\ UNCHANGED <<pipeVars, routeVars, reconVars, searchVars, memoVars, switchVars, sosVars>>
    /\ isPaused' = ~isPaused
    /\ timerRef' = intervalRuns(safetyTimerActive, isPaused', timeLeft)
    /\ timerEvent' = IF isPaused THEN "resume" ELSE "pause"
    /\ UNCHANGED <<safetyTimerActive, timeLeft>>

\* the +5m and +15m buttons: addTime(minutes)
addTime(minutes) ==
    /\ safetyTimerActive
    /\ timeLeft + minutes * 60 <= MaxTimeLeft
    /\ UNCHANGED <<pipeVars, routeVars, reconVars, searchVars, memoVars, switchVars, sosVars>>
    /\ timeLeft' = timeLeft + minutes * 60
    /\ timerRef' = intervalRuns(safetyTimerActive, isPaused, timeLeft')
    /\ timerEvent' = "addTime"
    /\ UNCHANGED <<safetyTimerActive, isPaused>>

\* the close and I'M SAFE buttons: onStop, setSafetyTimerActive(false)
StopTimer ==
    /\ safetyTimerActive
    /\ UNCHANGED <<pipeVars, routeVars, reconVars, searchVars, memoVars, switchVars, sosVars>>
    /\ safetyTimerActive' = FALSE
    /\ timerRef' = intervalRuns(FALSE, isPaused, timeLeft)
    /\ timerEvent' = "stop"
    /\ UNCHANGED <<timeLeft, isPaused>>

TimerNext ==
    \/ ActivateTimer
    \/ Tick
    \/ TogglePause
    \/ \E minutes \in AddTimeMinutes : addTime(minutes)
    \/ StopTimer

TimerInit ==
    /\ GEMINI_API_KEY = FALSE
    /\ GROQ_API_KEY = FALSE
    /\ PipelineAtRest
    /\ RouteAtRest
    /\ ReconAtRest
    /\ SearchAtRest
    /\ SessionAtRest

SpecTimer == TimerInit /\ [][TimerNext]_vars

\* a running interval calls its callback every second
SpecTimerFair == TimerInit /\ [][TimerNext]_vars /\ WF_vars(Tick)

----------------------------------------------------------------------------
(* Claims about the provider chain *)

\* C1: when both providers fail (missing credential, rejected request,
\* non-2xx status, unparsable body), the call never raises to its caller:
\* it reaches the heuristic tier, which can always run, and resolves to a
\* result whose source is 'EST'.
C1_FallbackCompleteness ==
    /\ pc # "raised"
    /\ (tier1 = "failed" /\ tier2 = "failed") => pc \in {"tier3", "done"}
    /\ pc = "tier3" => ENABLED HeuristicTier
    /\ (pc = "done" /\ tier1 = "failed" /\ tier2 = "failed")
           => result.source = "EST"

\* both providers were asked, both failed, and the time pipeline answered
C1_Witness ==
    /\ pc = "done"
    /\ fn = "analyzeLocationTiming"
    /\ geminiCalls = 1 /\ groqCalls = 1
    /\ tier1 = "failed" /\ tier2 = "failed"
    /\ result.source = "EST"

\* C2: when the primary call succeeds and its answer parses to a value whose
\* fields can be read, the secondary provider is never invoked: the call
\* ends after exactly one provider invocation, with the primary's result.
\* (An answer that parses to JSON null makes the field reads throw and is a
\* failure of the primary tier.)
C2_TierOrdering ==
    /\ groqCalls > 0 => tier1 = "failed"
    /\ tier1 = "ok" => pc = "done"
    /\ (pc = "done" /\ tier1 = "ok")
           => /\ geminiCalls = 1
              /\ groqCalls = 0
              /\ tier2 = "none"
              /\ result.source = "Gemini"

\* the primary succeeded while the secondary's credential was present
C2_Witness ==
    /\ pc = "done"
    /\ tier1 = "ok"
    /\ GROQ_API_KEY
    /\ geminiCalls = 1 /\ groqCalls = 0
    /\ result.source = "Gemini"

----------------------------------------------------------------------------
(* Claims about getRoute *)

Abs(x) == IF x < 0 THEN 0 - x ELSE x

\* the expected-speed model as the specification states it, km/h
StatedSpeed(m) == CASE m = "walking" -> 5
                    [] m = "cycling" -> 15
                    [] m = "driving" -> 50

\* expected(d, m) = (d_km / speed[m]) * 3600 seconds, in 1/10000 s
StatedExpected10000(m, d10) == d10 * (3600 \div StatedSpeed(m))

\* the provider's duration is > 2 * expected or < 0.3 * expected
StatedImplausible(m, d10, t10) ==
    \/ t10 * 1000 > 2 * StatedExpected10000(m, d10)
    \/ t10 * 10000 < 3 * StatedExpected10000(m, d10)

RoutedImplausibly ==
    /\ routePc = "done"
    /\ routeReply.kind = "route"
    /\ StatedImplausible(profile, routeReply.distance10, routeReply.duration10)

\* the returned duration is expected(d, m) to within rounding (half a second)
DurationIsExpected ==
    Abs(routeResult.duration10000
          - StatedExpected10000(profile, routeReply.distance10)) <= 5000

\* C3 as the specification words it: every getRoute replaces an implausible provider duration
\* by expected(d, m).
C3_AsStated == RoutedImplausibly => DurationIsExpected

\* C3, as the code has it: the validating variant of getRoute replaces an implausible
\* provider duration (> 2 * expected or < 0.3 * expected) by expected(d, m)
\* rounded to whole seconds; services/RouteService.ts returns the provider's
\* duration unchanged.
C3_RoutePlausibility ==
    RoutedImplausibly =>
        IF routeImpl = "validating"
        THEN DurationIsExpected /\ routeResult.duration10000 % 10000 = 0
        ELSE routeResult.duration10000 = routeReply.duration10 * 1000

\* 1 km on foot reported as 1440.1 s (expected 720 s) comes back as 720 s
C3_Witness ==
    /\ routePc = "done"
    /\ routeImpl = "validating"
    /\ profile = "walking"
    /\ routeReply.kind = "route"
    /\ routeReply.distance10 = 10000
    /\ routeReply.duration10 = 14401
    /\ routeResult.duration10000 = 7200000

\* C4: getRoute never raises and never resolves to null: whatever the
\* provider does (rejected request, non-JSON body, no or empty routes list,
\* a route), the call ends with a RouteData.
C4_AlwaysARoute ==
    /\ routePc \in {"idle", "fetching", "done"}
    /\ routePc = "fetching" => ENABLED FetchReject
    /\ routePc = "done" => /\ routeResult.kind = "route"
                           /\ routeResult.duration10000 >= 0
                           /\ routeResult.distance10 >= 0

\* an empty routes list ended in a RouteData
C4_Witness ==
    /\ routePc = "done"
    /\ routeReply.kind = "empty"
    /\ routeResult.kind = "route"
    /\ start # end

RouteFailed ==
    /\ routePc = "done"
    /\ routeReply.kind \in {"reject", "nonjson", "noroutes", "empty", "nogeometry"}

\* geometry [origin, destination], distance = haversine * 1.2 and
\* duration = (distance_km / speed) * 3600 at 5 / 15 / 50 km/h, each to
\* within rounding (half a metre, half a second)
StatedFallback ==
    LET adjustedCm == getDistanceFromLatLonInDm(start, end) * 12
    IN  /\ routeResult.coordinates = <<start, end>>
        /\ Abs(routeResult.distance10 * 10 - adjustedCm) <= 50
        /\ Abs(routeResult.duration10000 * 10
                 - adjustedCm * (3600 \div StatedSpeed(profile))) <= 50000

\* C5 as the specification words it: every getRoute answers a failed request that way.
C5_AsStated == RouteFailed => StatedFallback

\* C5, as the code has it: when the request fails or yields no route, the validating
\* variant returns geometry [origin, destination], the haversine distance
\* times 1.2 rounded to metres and the duration at 5 / 15 / 50 km/h rounded
\* to seconds; services/RouteService.ts returns the same geometry with the
\* unbuffered haversine distance and the duration at 5 / 15 / 30 km/h.
C5_FailureFallback ==
    RouteFailed =>
        IF routeImpl = "validating"
        THEN /\ StatedFallback
             /\ routeResult.distance10 % 10 = 0
             /\ routeResult.duration10000 % 10000 = 0
        ELSE LET distDm == getDistanceFromLatLonInDm(start, end)
                 speed  == IF profile = "driving" THEN 30
                           ELSE StatedSpeed(profile)
             IN  /\ routeResult.coordinates = <<start, end>>
                 /\ routeResult.distance10 = distDm
                 /\ routeResult.duration10000 = distDm * (3600 \div speed)

\* the scenario of the specification: (51.5074, -0.1278) to
\* (51.5155, -0.0922) by car, provider unreachable: 3148 m, 227 s
C5_Witness ==
    /\ routePc = "done"
    /\ routeImpl = "validating"
    /\ routeReply.kind = "reject"
    /\ start = <<515074, -1278>>
    /\ end = <<515155, -922>>
    /\ profile = "driving"
    /\ routeResult.coordinates = <<start, end>>
    /\ routeResult.distance10 = 31480
    /\ routeResult.duration10000 = 2270000

----------------------------------------------------------------------------
(* Claims about the transport comparison *)

HasEntry(name) == findIndex(modes, name) # 0

EntryOf(name) == modes[findIndex(modes, name)]

\* walking and cycling results are given, the cycling distance is within
\* [0.8, 1.2] times the walking distance and the cycling duration exceeds
\* the walking duration
SlowBikeGiven ==
    /\ routeOptions["walking"].kind = "route"
    /\ routeOptions["cycling"].kind = "route"
    /\ 10 * routeOptions["cycling"].distance >= 8 * routeOptions["walking"].distance
    /\ 10 * routeOptions["cycling"].distance <= 12 * routeOptions["walking"].distance
    /\ routeOptions["cycling"].duration > routeOptions["walking"].duration

\* round(cyclingDistanceKm / 15 * 3600), in hundredths of a second
RoundedNominal100(distanceM) == ((distanceM * 24 + 50) \div 100) * 100

\* C6 as the specification words it: in every such case the cycling
\* duration becomes round(cyclingDistanceKm / 15 * 3600).
C6_AsStated ==
    (rendered /\ SlowBikeGiven)
        => /\ HasEntry("cycling")
           /\ EntryOf("cycling").duration100
                  = RoundedNominal100(routeOptions["cycling"].distance)

\* C6, as the component has it: given walking and cycling results with the
\* cycling distance within [0.8, 1.2] times the walking distance and the
\* cycling duration above the walking duration, when the walking result has
\* a positive distance and a positive duration the cycling duration becomes
\* cyclingDistanceKm / 15 * 3600 seconds, not rounded (2.101 km gives
\* 504.24 s), its minutes the rounding of that and its speed 15 km/h;
\* walking 2.0 km / 1500 s and cycling 2.1 km / 2000 s gives 504 s.  When
\* the walking result has a zero distance or duration it is dropped and the
\* cycling duration stays what the routing service said.
C6_CrossModeCorrection ==
    (rendered /\ SlowBikeGiven)
        => /\ HasEntry("cycling")
           /\ IF /\ routeOptions["walking"].distance > 0
                 /\ routeOptions["walking"].duration > 0
              THEN /\ EntryOf("cycling").duration100
                          = routeOptions["cycling"].distance * 24
                   /\ EntryOf("cycling").durationMinutes
                          = (routeOptions["cycling"].distance * 24 + 3000) \div 6000
                   /\ EntryOf("cycling").averageSpeed1000 = 15000
                   /\ (/\ routeOptions["walking"].distance = 2000
                       /\ routeOptions["walking"].duration = 1500
                       /\ routeOptions["cycling"].distance = 2100
                       /\ routeOptions["cycling"].duration = 2000)
                          => EntryOf("cycling").duration100 = 50400
              ELSE EntryOf("cycling").duration100
                       = routeOptions["cycling"].duration * 100

\* walking 2.0 km / 1500 s, cycling 2.1 km / 2000 s: cycling shows 504 s
C6_Witness ==
    /\ rendered
    /\ routeOptions["walking"] = RouteOption(2000, 1500)
    /\ routeOptions["cycling"] = RouteOption(2100, 2000)
    /\ HasEntry("cycling")
    /\ EntryOf("cycling").duration100 = 50400
    /\ EntryOf("cycling").durationMinutes = 8

\* C7: whenever the walking and the cycling result are both shown and their
\* distances are comparable (cycling within 20% of walking), the cycling
\* duration shown to the user is not greater than the walking duration shown.
C7_BikeNeverSlower ==
    (/\ rendered
     /\ HasEntry("walking")
     /\ HasEntry("cycling")
     /\ 10 * routeOptions["cycling"].distance >= 8 * routeOptions["walking"].distance
     /\ 10 * routeOptions["cycling"].distance <= 12 * routeOptions["walking"].distance)
        => getDisplayDuration100(routeTimeAnalysis, EntryOf("cycling"))
               <= getDisplayDuration100(routeTimeAnalysis, EntryOf("walking"))

\* walking 2.0 km / 1500 s and cycling 2.1 km / 2000 s, each analysis
\* repeating its base duration: the list holds 504 s for cycling, the card
\* shows 33 minutes for cycling and 25 for walking
C7_Witness ==
    /\ rendered
    /\ routeOptions["walking"] = RouteOption(2000, 1500)
    /\ routeOptions["cycling"] = RouteOption(2100, 2000)
    /\ routeTimeAnalysis["walking"].kind = "analysis"
    /\ routeTimeAnalysis["cycling"].kind = "analysis"
    /\ routeTimeAnalysis["walking"].adjustedDuration = 1500
    /\ routeTimeAnalysis["cycling"].adjustedDuration = 2000
    /\ EntryOf("cycling").duration100 = 50400
    /\ formatTime(getDisplayDuration100(routeTimeAnalysis, EntryOf("cycling")))
           = [hours |-> 0, minutes |-> 33]
    /\ formatTime(getDisplayDuration100(routeTimeAnalysis, EntryOf("walking")))
           = [hours |-> 0, minutes |-> 25]

----------------------------------------------------------------------------
(* Claims about the heuristic tiers *)

Estimated == pc = "done"

InMinutes == fn = "generateIntelligentFallbackTiming"

\* the base duration in the unit the estimator was handed it in
BaseGiven == IF InMinutes THEN (baseDuration + 30) \div 60 ELSE baseDuration

NightHour == hour < 6 \/ hour > 21

RushHour == (hour >= 7 /\ hour <= 9) \/ (hour >= 17 /\ hour <= 19)

\* the factor table of the specification, in hundredths
StatedFactor100 ==
    CASE mode = "driving" -> IF RushHour THEN 130
                             ELSE IF NightHour THEN 85 ELSE 100
      [] mode = "cycling" -> IF RushHour THEN 110
                             ELSE IF NightHour THEN 115 ELSE 100
      [] mode = "walking" ->
            LET f == IF NightHour THEN 120 ELSE 100
            IN  IF distance > 3000 THEN (IF f + 10 > 130 THEN 130 ELSE f + 10)
                ELSE f

\* the access times of the specification, seconds
StatedAccessSeconds == CASE mode = "driving" -> 300
                         [] mode = "cycling" -> 120
                         [] mode = "walking" -> 0

\* (distance_km / speed) * 3600 at 5 / 15 / 50 km/h, in thousandths of a second
DistanceSeconds1000 == distance * (3600 \div StatedSpeed(mode))

\* C8 as the specification words it: for walking the adjusted duration is
\* the base duration the caller passed, whatever the distance and the hour.
C8_AsStated ==
    (Estimated /\ mode = "walking") => result.adjustedDuration = BaseGiven

\* C8, as the estimators have it: for walking no access time is added in
\* any heuristic path.  generateIntelligentFallbackTiming returns
\* round(baseMinutes * factor) with factor 1.0 by day and 1.2 at night
\* (hour < 6 or hour > 21), plus 0.1 over 3 km: the adjusted duration equals
\* the base only by day up to 3 km.  generateFallbackTimeAnalysis and the
\* catch branch of analyzeRouteTime return adjusted = estimated =
\* round(distance_km / 5 * 3600), whatever base duration the caller passed.
C8_WalkingNoAccessTime ==
    (Estimated /\ mode = "walking") =>
        IF InMinutes
        THEN LET f == (IF NightHour THEN 120 ELSE 100)
                          + (IF distance > 3000 THEN 10 ELSE 0)
             IN  /\ result.adjustedDuration = (BaseGiven * f + 50) \div 100
                 /\ (~NightHour /\ distance <= 3000)
                        => result.adjustedDuration = BaseGiven
        ELSE /\ result.adjustedDuration = result.estimatedDuration
             /\ result.adjustedDuration = (distance * 720 + 500) \div 1000

\* a ten-minute walk of 1.75 km at 22h is estimated at twelve minutes
C8_Witness ==
    /\ Estimated
    /\ InMinutes
    /\ mode = "walking"
    /\ hour = 22
    /\ baseDuration = 600
    /\ distance = 1750
    /\ result.adjustedDuration = 12

\* the adjusted duration of a result, in seconds
AdjustedSeconds == IF result.unit = "minutes" THEN result.adjustedDuration * 60
                   ELSE result.adjustedDuration

\* C9 as the specification words it: adjustedDurationSeconds =
\* round(baseDurationSeconds * factor) + accessTimeSeconds in every
\* heuristic path; hour 22, cycling, 600 s gives 810 s.
C9_AsStated ==
    Estimated =>
        AdjustedSeconds = (baseDuration * StatedFactor100 + 50) \div 100
                              + StatedAccessSeconds

\* C9, as the estimators have it: generateIntelligentFallbackTiming works in
\* minutes, adjustedMinutes = round(round(baseSeconds / 60) * factor +
\* accessMinutes) with access 5 / 2 / 0 minutes; hour 22, cycling, 600 s
\* gives 14 minutes (840 s).  generateFallbackTimeAnalysis and the catch
\* branch of analyzeRouteTime use neither the base duration nor the hour:
\* adjustedDuration = round(distance_km / speed * 3600 + access) seconds at
\* 5 / 15 / 50 km/h with access 300 s driving, 60 s cycling, 0 s walking.
C9_AdjustedDuration ==
    Estimated =>
        IF InMinutes
        THEN /\ result.unit = "minutes"
             /\ result.adjustedDuration =
                   (((baseDuration + 30) \div 60) * StatedFactor100
                        + (StatedAccessSeconds \div 60) * 100 + 50) \div 100
             /\ (hour = 22 /\ mode = "cycling" /\ baseDuration = 600)
                    => AdjustedSeconds = 840
        ELSE /\ result.unit = "seconds"
             /\ result.adjustedDuration =
                   (DistanceSeconds1000
                        + (CASE mode = "driving" -> 300
                             [] mode = "cycling" -> 60
                             [] mode = "walking" -> 0) * 1000 + 500) \div 1000

\* hour 22, cycling, 600 s: fourteen minutes
C9_Witness ==
    /\ Estimated
    /\ InMinutes
    /\ hour = 22
    /\ mode = "cycling"
    /\ baseDuration = 600
    /\ result.adjustedDuration = 14
    /\ AdjustedSeconds = 840

\* the access time a result carries, in seconds: what the adjusted duration
\* holds beyond the estimate without access time
AccessSeconds ==
    IF InMinutes
    THEN (result.adjustedDuration
            - (((baseDuration + 30) \div 60) * StatedFactor100 + 50) \div 100) * 60
    ELSE result.adjustedDuration - (DistanceSeconds1000 + 500) \div 1000

C11_AsStated ==
    (Estimated /\ mode \in {"driving", "cycling"})
        => result.adjustedDuration >= BaseGiven

\* C11, as the estimators have it: for driving and cycling,
\* generateIntelligentFallbackTiming returns adjustedMinutes >= baseMinutes
\* except for driving at night outside the rush hours with a base above 36
\* minutes, where the factor 0.85 outweighs the five access minutes; there
\* the adjusted duration is below the base.  generateFallbackTimeAnalysis
\* and the catch branch of analyzeRouteTime return an adjusted duration that
\* is their own estimate from the distance plus the access time, so never
\* below that estimate, whatever the base duration of the caller.
C11_AdjustedAgainstBase ==
    (Estimated /\ mode \in {"driving", "cycling"}) =>
        IF InMinutes
        THEN (result.adjustedDuration < BaseGiven)
                 <=> (mode = "driving" /\ NightHour /\ ~RushHour /\ BaseGiven > 36)
        ELSE /\ result.adjustedDuration >= result.estimatedDuration
             /\ result.adjustedDuration - result.estimatedDuration
                    = (IF mode = "driving" THEN 300 ELSE 60)

\* 37 minutes by car at 23h come back as 36 minutes
C11_Witness ==
    /\ Estimated
    /\ InMinutes
    /\ mode = "driving"
    /\ hour = 23
    /\ baseDuration = 2220
    /\ result.estimatedDuration = 37
    /\ result.adjustedDuration = 36

----------------------------------------------------------------------------
(* Claims about the results of the time pipelines *)

TimeEstimateReturned ==
    /\ pc = "done"
    /\ fn \in {"analyzeRouteTime", "analyzeLocationTiming"}

\* the seconds from now at which the reported adjusted duration ends
AdjustedOffset ==
    IF result.adjustedDuration \in {Undef, NaN} THEN NaN
    ELSE IF result.unit = "minutes" THEN result.adjustedDuration * 60
    ELSE result.adjustedDuration

\* C12: every time estimate, whichever tier produced it, carries an
\* arrival time that is now + the adjusted duration the same result reports.
C12_ArrivalFromAdjusted ==
    TimeEstimateReturned => result.arrivalOffset = AdjustedOffset

\* the primary provider of analyzeRouteTime answers estimatedDuration 420,
\* adjustedDuration 1000: the result reports 1000 s and an arrival time
\* 420 s from now
C12_Witness ==
    /\ pc = "done"
    /\ fn = "analyzeRouteTime"
    /\ result.source = "Gemini"
    /\ result.estimatedDuration = 420
    /\ result.adjustedDuration = 1000
    /\ result.arrivalOffset = 420

\* a provider text that is not JSON, or is JSON without a required field
\* (score, tip for safety; estimatedDuration, adjustedDuration for timing)
Malformed(f, body) ==
    \/ body.kind # "object"
    \/ IF f = "getSafetyAnalysis"
       THEN body.score10 = Undef \/ body.tip = Undef
       ELSE body.estimatedDuration = Undef \/ body.adjustedDuration = Undef

\* C13: a provider answer that is not JSON or lacks a required field is a
\* failure of its tier: the tier is marked failed, nothing is returned from
\* that answer and the call goes on to the next tier.
C13_MalformedFallsThrough ==
    [][/\ \A body \in Bodies(fn) :
             (GeminiReply(body) /\ Malformed(fn, body))
                 => (tier1' = "failed" /\ pc' = "tier2" /\ result' = result)
       /\ \A reply \in GroqReplies(fn) :
             (GroqReply(reply) /\ Malformed(fn, reply.content))
                 => (tier2' = "failed" /\ pc' = "tier3" /\ result' = result)]_vars

\* an answer {"tip": ...} without a score came back tagged 'Gemini'
C13_Witness ==
    /\ pc = "done"
    /\ fn = "getSafetyAnalysis"
    /\ tier1 = "ok"
    /\ result.source = "Gemini"
    /\ result.score10 = Undef
    /\ result.tip = 1

----------------------------------------------------------------------------
(* Claims about handleSearch *)

\* a search has ended and its origin or its destination has no coordinates
EndedWithoutCoordinates ==
    /\ searchPc = "returned"
    /\ destination # ""
    /\ startCoords = None \/ endCoords = None

\* C14: a search whose origin or destination cannot be resolved to
\* coordinates ends in an explicit error, with no safety estimate and no
\* time estimate produced or shown.
C14_NoEstimateWithoutCoordinates ==
    EndedWithoutCoordinates
        => /\ alerted
           /\ analysis = NullSafety
           /\ \A m \in Modes : routeTimeAnalysis[m] = NullAnalysis

\* the destination was not found: no alert, and a safety analysis is shown
C14_Witness ==
    /\ searchPc = "returned"
    /\ destination = "typed destination"
    /\ startCoords = HereCoords
    /\ endCoords = None
    /\ ~alerted
    /\ ~isLoading
    /\ analysis = SafetyFallback

\* C15: the three getRoute calls of a search are all made before any of
\* them is awaited; no time estimation starts before all three have
\* resolved; a routing request that fails gives that mode the fallback
\* route, leaves the other two modes with what their own requests gave, and
\* does not fail the search.
C15_RouteFanOut ==
    /\ searchPc = "routes" => \A m \in Modes : routeCalls[m].status # "none"
    /\ (\E m \in Modes : routeCalls[m].status = "resolved")
           => \A m \in Modes : routeCalls[m].status # "none"
    /\ (\E m \in Modes : timeCalls[m].status # "none")
           => AllResolved(routeCalls)
    /\ \A m \in Modes :
          routeCalls[m].status = "resolved"
              => /\ routeCalls[m].value.kind = "route"
                 /\ routeCalls[m].reply.kind = "route"
                        => /\ routeCalls[m].value.distance10
                                  = routeCalls[m].reply.distance10
                           /\ Len(routeCalls[m].value.coordinates) = 3
                 /\ routeCalls[m].reply.kind = "reject"
                        => routeCalls[m].value.coordinates
                               = <<startCoords, endCoords>>
    /\ (searchPc \in {"times", "safety", "returned"}
          /\ routeCalls["walking"].status = "resolved")
           => /\ ~alerted
              /\ \A m \in Modes :
                    routeOptions[m]
                        = RouteOption(routeCalls[m].value.distance10 \div 10,
                                      routeCalls[m].value.duration10000 \div 10000)
    /\ (searchPc = "returned" /\ AllResolved(routeCalls))
           => analysis \in SafetyResults \cup OfflineCached

\* the cycling request failed, the other two did not: the search ended with
\* three routes and an analysis
C15_Witness ==
    /\ searchPc = "returned"
    /\ searchVariant = 1
    /\ AllResolved(routeCalls)
    /\ routeCalls["cycling"].reply.kind = "reject"
    /\ routeCalls["walking"].reply.kind = "route"
    /\ routeCalls["driving"].reply.kind = "route"
    /\ routeOptions["walking"] = RouteOption(1000, 720)
    /\ routeOptions["cycling"].kind = "route"
    /\ routeOptions["driving"].distance = 1000
    /\ \A m \in Modes : routeTimeAnalysis[m].kind = "analysis"
    /\ analysis \in SafetyResults

----------------------------------------------------------------------------
(* Claims about the order of the tiers and the provenance of results *)

\* C16: within one call the tiers run in the order primary, secondary,
\* heuristic: the secondary request is not started before the primary
\* attempt has failed, the heuristic is not used before the secondary
\* attempt has failed, and each provider is asked at most once.
C16_TierSequence ==
    /\ (pc \in {"tier2", "awaitGroq"} \/ groqCalls > 0 \/ tier2 # "none")
           => tier1 = "failed"
    /\ (pc = "tier3" \/ (pc = "done" /\ result.source = "EST"))
           => (tier1 = "failed" /\ tier2 = "failed")
    /\ pc = "awaitGemini" => (tier1 = "none" /\ tier2 = "none" /\ groqCalls = 0)
    /\ geminiCalls <= 1
    /\ groqCalls <= 1

\* analyzeRouteTime went through all three tiers, one request to each provider
C16_Witness ==
    /\ pc = "done"
    /\ fn = "analyzeRouteTime"
    /\ GEMINI_API_KEY /\ GROQ_API_KEY
    /\ geminiCalls = 1 /\ groqCalls = 1
    /\ tier1 = "failed" /\ tier2 = "failed"
    /\ result.source = "EST"

\* C17: the source of a returned result names the tier that produced it:
\* 'Gemini' exactly when the primary attempt succeeded, 'Groq' exactly when
\* the primary failed and the secondary succeeded, 'EST' exactly when both
\* failed; analyzeLocationTiming returns the confidence 85 with 'Gemini',
\* 80 with 'Groq' and 65 with 'EST'.
C17_Provenance ==
    pc = "done" =>
        /\ result.source \in {"Gemini", "Groq", "EST"}
        /\ result.source = "Gemini" <=> tier1 = "ok"
        /\ result.source = "Groq" <=> (tier1 = "failed" /\ tier2 = "ok")
        /\ result.source = "EST" <=> (tier1 = "failed" /\ tier2 = "failed")
        /\ result.source = "Gemini" => (geminiCalls = 1 /\ groqCalls = 0)
        /\ result.source = "Groq" => groqCalls = 1
        /\ fn = "analyzeLocationTiming"
              => <<result.source, result.confidence>>
                     \in {<<"Gemini", 85>>, <<"Groq", 80>>, <<"EST", 65>>}

\* analyzeLocationTiming answered from the secondary provider
C17_Witness ==
    /\ pc = "done"
    /\ fn = "analyzeLocationTiming"
    /\ tier1 = "failed"
    /\ tier2 = "ok"
    /\ groqCalls = 1
    /\ result.source = "Groq"
    /\ result.confidence = 80

\* C18: when getRoute returns for the same origin, destination and mode as the
\* call before it, and the provider answered both calls alike, the RouteData
\* is the RouteData of the call before.
SameCallAsBefore ==
    /\ routePc = "done"
    /\ previousRoute # NoPrevious
    /\ previousRoute.impl = routeImpl
    /\ previousRoute.start = start
    /\ previousRoute.end = end
    /\ previousRoute.profile = profile
    /\ previousRoute.reply = routeReply

DrivingRushHours == (7..9) \cup (17..19)

DrivingNightHours == (0..5) \cup (22..23)

\* the factor the specification gives for driving at the hour of the call
DrivingFactor100 ==
    IF hour \in DrivingRushHours THEN 130
    ELSE IF hour \in DrivingNightHours THEN 85
    ELSE 100

\* C19: in generateIntelligentFallbackTiming for driving the adjustment factor
\* is 1.3 at the hours 7..9 and 17..19, otherwise 0.85 at the hours before 6
\* and after 21, otherwise 1.0, at every hour 0..23; the estimate returned is
\* round(baseMinutes * factor + 5).
C19_DrivingFactor ==
    (Estimated /\ InMinutes /\ mode = "driving") =>
        /\ hour \in 0..23
        /\ adjustmentFactor100(mode, distance, hour) = DrivingFactor100
        /\ result.adjustedDuration = (BaseGiven * DrivingFactor100 + 500 + 50) \div 100

\* a 36-minute drive at 18h is estimated at round(36 * 1.3 + 5) = 52 minutes
C19_Witness ==
    /\ Estimated
    /\ InMinutes
    /\ mode = "driving"
    /\ hour = 18
    /\ baseDuration = 2160
    /\ result.adjustedDuration = 52

\* the factor the specification gives for walking: night, then the long walk
WalkingFactor100 ==
    LET byHour == IF hour \in DrivingNightHours THEN 120 ELSE 100
        byLength == IF distance > 3000 THEN byHour + 10 ELSE byHour
    IN  IF byLength > 130 THEN 130 ELSE byLength

\* C20: in generateIntelligentFallbackTiming for walking the adjustment factor
\* is 1.2 at night and 1.0 otherwise, 0.1 more when the distance is over 3 km
\* (3 km itself is not over), never more than 1.3, hence one of 1.0, 1.1, 1.2
\* and 1.3; the estimate returned is round(baseMinutes * factor).
C20_WalkingFactor ==
    (Estimated /\ InMinutes /\ mode = "walking") =>
        /\ adjustmentFactor100(mode, distance, hour) = WalkingFactor100
        /\ WalkingFactor100 \in {100, 110, 120, 130}
        /\ WalkingFactor100 = (IF NightHour THEN 120 ELSE 100)
                                 + (IF distance > 3000 THEN 10 ELSE 0)
        /\ result.adjustedDuration = (BaseGiven * WalkingFactor100 + 50) \div 100

\* a ten-minute walk of 3001 m at 23h is estimated at round(10 * 1.3) = 13 minutes
C20_Witness ==
    /\ Estimated
    /\ InMinutes
    /\ mode = "walking"
    /\ hour = 23
    /\ distance = 3001
    /\ baseDuration = 600
    /\ result.adjustedDuration = 13

\* the factor the specification gives for cycling, night looked at first
CyclingFactor100 ==
    IF hour \in DrivingNightHours THEN 115
    ELSE IF hour \in DrivingRushHours THEN 110
    ELSE 100

\* the same with rush hour looked at first
CyclingFactorRushFirst100 ==
    IF hour \in DrivingRushHours THEN 110
    ELSE IF hour \in DrivingNightHours THEN 115
    ELSE 100

\* C21: in generateIntelligentFallbackTiming for cycling the adjustment factor
\* is 1.15 at night (hour < 6 or > 21), 1.1 in rush hour (7..9 or 17..19) and
\* 1.0 otherwise; at no hour 0..23 are night and rush hour both true, so the
\* order of the two assignments does not matter; the estimate returned is
\* round(baseMinutes * factor + 2).
C21_CyclingFactor ==
    (Estimated /\ InMinutes /\ mode = "cycling") =>
        /\ hour \in 0..23
        /\ ~(isNight(hour) /\ isRushHour(hour))
        /\ isNight(hour) <=> hour \in DrivingNightHours
        /\ isRushHour(hour) <=> hour \in DrivingRushHours
        /\ adjustmentFactor100(mode, distance, hour) = CyclingFactor100
        /\ CyclingFactor100 = CyclingFactorRushFirst100
        /\ result.adjustedDuration = (BaseGiven * CyclingFactor100 + 200 + 50) \div 100

\* a 36-minute ride at 22h is estimated at round(36 * 1.15 + 2) = 43 minutes
C21_Witness ==
    /\ Estimated
    /\ InMinutes
    /\ mode = "cycling"
    /\ hour = 22
    /\ baseDuration = 2160
    /\ result.adjustedDuration = 43

\* the route stored for a mode has a positive distance and a positive duration
Shown(name) ==
    /\ routeOptions[name].kind = "route"
    /\ routeOptions[name].distance > 0
    /\ routeOptions[name].duration > 0

\* C22: the cross-mode step never changes the driving or the walking entry
\* (distance, duration, minutes, average speed are those computed from the
\* stored route), drops or adds no entry, never changes the cycling distance,
\* and leaves the whole cycling entry as computed unless walking data is there,
\* the distances are comparable and cycling is slower than walking.
C22_ReconciliationFrame ==
    rendered =>
        /\ \A m \in Modes : HasEntry(m) <=> Shown(m)
        /\ Len(modes) = Cardinality({m \in Modes : Shown(m)})
        /\ \A m \in {"driving", "walking"} :
               HasEntry(m) => EntryOf(m) = RawMode(routeOptions, m)
        /\ HasEntry("cycling") =>
               /\ EntryOf("cycling").distance = routeOptions["cycling"].distance
               /\ ~(Shown("walking") /\ SlowBikeGiven)
                      => EntryOf("cycling") = RawMode(routeOptions, "cycling")

\* cycling 2.5 km in 2000 s beside walking 1 km in 750 s: slower, but the
\* distances are not comparable, and the three entries are as computed
C22_Witness ==
    /\ rendered
    /\ routeOptions["walking"] = RouteOption(1000, 750)
    /\ routeOptions["cycling"] = RouteOption(2500, 2000)
    /\ routeOptions["driving"] = RouteOption(5000, 400)
    /\ Len(modes) = 3
    /\ EntryOf("cycling").duration100 = 200000
    /\ EntryOf("driving").duration100 = 40000

\* C23: every RouteData getRoute returns has a geometry of at least two
\* points, whatever the provider answered (a route with fewer than two
\* coordinates included) and in the failure fallback.
C23_GeometryAtLeastTwo ==
    routePc = "done" => Len(routeResult.coordinates) >= 2

\* a route whose geometry holds one coordinate comes back with one point
C23_Witness ==
    /\ routePc = "done"
    /\ routeImpl = "validating"
    /\ routeReply.kind = "route"
    /\ Len(routeReply.coordinates) = 1
    /\ routeResult.kind = "route"
    /\ Len(routeResult.coordinates) = 1

\* the provider's duration lies in [0.3 * expected, 2 * expected], both ends
\* included, expected being (distance_km / speed) * 3600 at 5 / 15 / 50 km/h
WithinLimits ==
    LET expected10000 == routeReply.distance10 * (3600 \div StatedSpeed(profile))
    IN  /\ routeReply.duration10 * 10000 >= expected10000 * 3
        /\ routeReply.duration10 * 1000 <= expected10000 * 2

\* C24: when the provider's duration lies within [0.3 * expected,
\* 2 * expected], both limits included, getRoute returns that duration,
\* rounded to whole seconds by the validating variant and as it came by
\* services/RouteService.ts; a duration is replaced only strictly outside.
C24_LimitsInclusive ==
    (routePc = "done" /\ routeReply.kind = "route") =>
        /\ WithinLimits =>
               routeResult.duration10000 =
                   IF routeImpl = "validating"
                   THEN ((routeReply.duration10 + 5) \div 10) * 10000
                   ELSE routeReply.duration10 * 1000
        /\ Abs(routeResult.duration10000 - routeReply.duration10 * 1000) > 5000
               => ~WithinLimits

\* 1 km on foot reported as 216.0 s, 0.3 times the expected 720 s, is kept
C24_Witness ==
    /\ routePc = "done"
    /\ routeImpl = "validating"
    /\ profile = "walking"
    /\ routeReply.kind = "route"
    /\ routeReply.distance10 = 10000
    /\ routeReply.duration10 = 2160
    /\ WithinLimits
    /\ routeResult.duration10000 = 2160000

\* a call has returned what the Map held, without a request
ReturnedStored(i) == memoCalls[i].pc = "returned" /\ memoCalls[i].hit

\* C25: the memoizing getSafetyAnalysis returns a stored result without a
\* request only if an earlier call with the same origin, destination and mode
\* obtained that result from the provider; what the Map holds has
\* isMock = false, the simulated answers of the missing-key path and of the
\* error path never being stored.
C25_StoredOnlyForSameArguments ==
    /\ \A k \in MemoKeys : cache[k] # NotCached => ~cache[k].isMock
    /\ \A i \in MemoSlots :
          ReturnedStored(i) =>
              /\ ~memoCalls[i].value.isMock
              /\ <<memoCalls[i].origin, memoCalls[i].destination,
                    memoCalls[i].mode, memoCalls[i].value>> \in obtained

\* "a-b" to "b" is answered from the Map with what the provider said about
\* "a" to "b-b": both give the key "a-b-b-walking"
C25_Witness ==
    \E i \in MemoSlots :
        /\ ReturnedStored(i)
        /\ memoCalls[i].origin = <<"a", "-", "b">>
        /\ memoCalls[i].destination = <<"b">>
        /\ obtained = {<<(<<"a">>), <<"b", "-", "b">>, memoCalls[i].mode,
                          memoCalls[i].value>>}

\* every request switchMode started has been answered
SwitchesSettled ==
    /\ switchCount > 0
    /\ destination # ""
    /\ switchPending = {}

\* C26: after any sequence of switchMode calls, once every getSafetyAnalysis
\* request they started has completed, the analysis shown is the result of a
\* request made for the travel mode now selected.
C26_LatestModeShown == SwitchesSettled => analysisFor = travelMode

\* cycling, then driving; the answer for driving came first and the answer
\* for cycling replaced it
C26_Witness ==
    /\ SwitchesSettled
    /\ switchCount = 2
    /\ travelMode = "driving"
    /\ analysisFor = "cycling"
    /\ analysis \in SafetyResults

\* C27: for any interleaving of startSOS and cancelSOS, two startSOS in a row
\* included, once cancelSOS has run no timer set before it remains pending,
\* and the timer that ran triggerSOS was not preceded by a cancelSOS after it
\* was set.
C27_NoTimerAfterCancel ==
    /\ \A t \in sosTimers : ~t.cancelled
    /\ ~sosTrigger.cancelled

\* two startSOS, one cancelSOS: the first timer stayed pending and ran
\* triggerSOS with the button released
C27_Witness ==
    /\ sosStarts = 2
    /\ sosTrigger = [id |-> 1, cancelled |-> TRUE]
    /\ sosActive
    /\ sosTimerRef = 0
    /\ sosTimers = {}

\* C28: SafetyTimer calls onTriggerSOS only in a tick taken while the timer
\* is active, not paused and timeLeft is at most 1, and that tick leaves
\* timeLeft at 0; in a step taken while the timer is paused or inactive,
\* other than the activation that resets it, timeLeft does not decrease; an
\* interval runs only while the timer is active, not paused and timeLeft is
\* positive; timeLeft is never negative.
C28_TriggerOnlyOnLastTick ==
    [][/\ timerEvent' = "lastTick" =>
              /\ timerRef
              /\ safetyTimerActive
              /\ ~isPaused
              /\ timeLeft <= 1
              /\ timeLeft' = 0
       /\ ((isPaused \/ ~safetyTimerActive) /\ ~(~safetyTimerActive /\ safetyTimerActive'))
              => timeLeft' >= timeLeft
       /\ timerRef' => (safetyTimerActive' /\ ~isPaused' /\ timeLeft' > 0)
       /\ timeLeft' >= 0]_vars

\* the last tick has called onTriggerSOS and left 0:00 with no interval
C28_Witness ==
    /\ safetyTimerActive
    /\ ~isPaused
    /\ timeLeft = 0
    /\ timerEvent = "lastTick"
    /\ ~timerRef

C30_LoadingEnds ==
    /\ isLoading ~> ~isLoading
    /\ [](isLoading => searchPc \notin {"idle", "returned"})
    /\ [](searchPc = "returned" => ~isLoading)

\* the search whose three routing requests were all rejected and whose
\* store failed after the analysis has ended with isLoading false
C30_Witness ==
    /\ searchPc = "returned"
    /\ searchVariant = 2
    /\ ~isLoading
    /\ AllResolved(routeCalls)
    /\ \A m \in Modes : routeCalls[m].reply.kind = "reject"
    /\ analysis \in OfflineCached

====
